---- MODULE Spec2Model ----
(***************************************************************************)
(* A model of the iflow-bot gateway engine: the message bus, the agent     *)
(* loop (per-user serialisation, command handling, streaming fan-out) and  *)
(* the agent adapter with its three modes (cli, acp, stdio) and their      *)
(* session bindings.                                                       *)
(*                                                                         *)
(* A task is one coroutine: a per-message worker spawned by AgentLoop.run, *)
(* or a direct call of IFlowAdapter.chat / chat_stream / new_chat.  One    *)
(* action is one stretch of code between two suspension points of the      *)
(* asyncio event loop.                                                     *)
(*                                                                         *)
(* Texts are sequences of tokens.  The agent's chunks are single tokens    *)
(* with a length (TokLen); the fixed acknowledgement is <<ACK>> and an     *)
(* error notice is <<ERR>> (the notice that starts with the cross mark).   *)
(***************************************************************************)
EXTENDS Integers, Sequences, FiniteSets, TLC

(* ---------------- bounds ---------------- *)
\* a run of the gateway over two chats
GatewayTasks == 2        \* inbound messages
GatewayChunks == 1       \* chunks the agent streams, over all calls
GatewayFaults == 1       \* failures of the agent (error replies, timeouts, lost sessions)
\* a run that follows one chat in detail
TurnTasks == 2
TurnChunks == 2
TurnFaults == 2
\* a run that follows the session binding of one chat over more turns
SessionTasks == 3
SessionChunks == 1
SessionFaults == 1
\* a run of direct calls of the adapter, without the loop
AdapterCalls == 2
AdapterChunks == 1
AdapterFaults == 1
MaxSid == 4              \* session ids the agent hands out
\* a run of the bus alone
BusPublishes == 3        \* publish calls, over both directions
BusConsumers == 2        \* consume calls
BusCapacity == 2         \* the max_size the bus was constructed with
\* a run of one connector
ChannelMessages == 2     \* incoming platform messages
SenderLen == 3           \* characters of a sender id
EntryLen == 2            \* characters of an allow_from entry
AllowSize == 2           \* entries of allow_from
\* a run of the scheduler that follows its timer
TimerJobs == 2           \* jobs ever created
TimerCalls == 1          \* remove_job, enable_job and run_job calls
TimerAdvances == 1       \* times the clock moves
\* a run of the scheduler that follows the executions of its jobs
FireJobs == 2
FireCalls == 1
FireAdvances == 1
ErrorJobs == 2
ErrorCalls == 1
ErrorAdvances == 1
ExprJobs == 2
ExprCalls == 1
ExprAdvances == 1
\* job ids of either run
MaxJobs == 3
\* a run of the heartbeat
HeartbeatLen == 4        \* tokens of HEARTBEAT.md
HeartbeatTicks == 2      \* times the interval passes
\* a run of one transport client
ClientPrompts == 2       \* prompt calls
ClientUpdates == 2       \* session/update notifications the agent writes
ClientStarts == 2        \* start() / connect() calls
ClientStops == 1         \* stop() / disconnect() calls
ClientCancels == 1       \* cancel() calls
\* a streaming turn of the qq connector
QqPieces == 6            \* pieces of the text the agent streams
QqThreshold == 2         \* the largest split_threshold
QqChunkLen == 3          \* the most characters of one chunk

(* ---------------- program constants ---------------- *)
STREAM_BUFFER_MIN == 10
STREAM_BUFFER_MAX == 25
max_size == 100

STREAMING_CHANNELS == {"telegram", "discord", "slack", "dingtalk", "qq"}

Modes == {"cli", "acp", "stdio"}

(* The chats of the model: an edit-last-message channel, a non-streaming   *)
(* channel and the card-edit channel.                                      *)
Keys == {<<"telegram", "7">>, <<"feishu", "7">>, <<"dingtalk", "7">>}
NoKey == <<"", "">>
PreBound == <<"telegram", "7">>     \* the chat the session file may bind at startup

Channel(k) == k[1]

(* Inbound contents and what content.strip().lower() makes of them.        *)
Contents == {"hi", " /New ", "/START"}
StripLower(c) ==
  CASE c = "hi" -> "hi"
    [] c = " /New " -> "/new"
    [] c = "/START" -> "/start"

IsCommand(c) == StripLower(c) \in {"/new", "/start"}

Tokens == {"a", "B"}
TokLen(c) == IF c = "a" THEN 6 ELSE 14
ACK == "ACK"
ERR == "ERR"

NoSid == 0

EmptyMap == [k \in {} |-> NoSid]
Bind(m, k, v) == [x \in (DOMAIN m) \cup {k} |-> IF x = k THEN v ELSE m[x]]
Unbind(m, k) == [x \in (DOMAIN m) \ {k} |-> m[x]]
Lookup(m, k) == IF k \in DOMAIN m THEN m[k] ELSE NoSid

IsPrefix(s, t) == Len(s) <= Len(t) /\ SubSeq(t, 1, Len(s)) = s

VARIABLES
  scenario,        \* the inputs of the run: its chats and its bounds
  mode,            \* IFlowAdapter.mode
  inbound,         \* MessageBus._inbound
  ready,           \* workers created by run() that have not run yet, oldest first
  task,            \* the coroutines: position and locals
  user_locks,      \* AgentLoop._user_locks
  stream_buffers,  \* AgentLoop._stream_buffers
  published,       \* per chat, the publish_outbound calls of the loop, in call order
  sent,            \* per chat, the direct connector calls of the loop, in call order
  mappings,        \* SessionMappingManager._mappings
  session_map,     \* _session_map of the mode's adapter (StdioACPAdapter / ACPAdapter)
  adapter_up,      \* the mode's adapter has been constructed (lazily, on first use)
  file,            \* ~/.iflow-bot/session_mappings.json
  session_lock,    \* StdioACPAdapter._session_lock
  next_sid,        \* the next session id the agent hands out
  reset_from,      \* per chat, the session id bound before the last /new, until the next prompt
  nchunks,         \* chunks the agent has streamed in this run
  nfaults          \* failures of the agent in this run

VARIABLES
  running,         \* MessageBus._running
  queue,           \* per direction, MessageBus._inbound / MessageBus._outbound
  getters,         \* per direction, the consume calls suspended in Queue.get()
  consumer,        \* the consume_inbound / consume_outbound calls
  calls,           \* per direction, the publish calls made so far
  accepted,        \* per direction, the messages put_nowait took, in publish order
  delivered,       \* per direction, <<call, message>> in the order get() returned
  warning          \* what the last publish call logged as a warning

VARIABLES
  allow_from,      \* the connector's config.allow_from
  handled          \* the sender ids _handle_message was called with, in call order

VARIABLES
  clock,           \* what _now_ms() returns
  cron_running,    \* CronService._running
  store,           \* CronService._store.jobs, by job id
  cron_file,       \* the jobs of the store file, by job id
  dirty,           \* the store file changed since the file watcher last looked
  timer,           \* the time CronService._timer_task sleeps until, if it sleeps
  handler,         \* the _on_timer call inside the timer task
  runner,          \* the run_job call
  invocations,     \* per job, the calls of on_job by _on_timer
  executed,        \* the jobs _execute_job has run to its end
  outbounds,       \* per job, the outbound messages on_cron_job published
  njobs,           \* jobs created so far
  cron_calls,      \* remove_job, enable_job and run_job calls made
  raised,          \* per job, the on_job calls of _on_timer that raised
  orphans,         \* per job, the prompts of cancelled on_job calls the agent has not answered
  advances         \* times the clock moved

VARIABLES
  hb_file,         \* HEARTBEAT.md: absent, or its text
  hb_running,      \* HeartbeatService._running
  hb_pc,           \* where _run_loop is
  hb_ticks,        \* the _tick calls made
  hb_invoked,      \* the on_heartbeat calls made
  hb_notified      \* the on_notify calls made

VARIABLES
  request_id,      \* StdioACPClient._request_id / ACPClient._request_id
  pending_requests,\* the ids of _pending_requests
  message_queue,   \* _message_queue
  prompts,         \* the prompt calls: position and locals
  requests,        \* the session/prompt requests the agent has not answered yet
  updates,         \* per session, the session/update notifications the agent wrote
  transport,       \* which client it is: StdioACPClient or ACPClient
  started,         \* StdioACPClient._started / ACPClient._connected
  alive,           \* the child process runs / the WebSocket is open
  spawned,         \* child processes spawned / connections opened so far
  receive_task,    \* where _receive_task is
  stdin,           \* the lines written to the agent, in order
  client_calls     \* start, stop and cancel calls made so far

VARIABLES
  qq               \* one turn of _process_with_streaming on the qq connector: its locals

VARIABLES
  stream,          \* one chat_stream call: the chunks of the agent and what each layer keeps
  dt,              \* the dingtalk connector: its cards and its streaming state for one chat
  disp             \* the outbound dispatcher of the channel manager, with the outbound queue

loopVars == <<inbound, ready, user_locks, stream_buffers, published, sent>>
adapterVars == <<mappings, session_map, adapter_up, file, session_lock, next_sid>>
busVars == <<running, queue, getters, consumer, calls, accepted, delivered, warning>>
channelVars == <<allow_from, handled>>
cronVars == <<clock, cron_running, store, cron_file, dirty, timer, handler, runner,
              invocations, executed, outbounds, njobs, cron_calls, advances, orphans, raised>>
hbVars == <<hb_file, hb_running, hb_pc, hb_ticks, hb_invoked, hb_notified>>
clientVars == <<request_id, pending_requests, message_queue, prompts, requests, updates,
                transport, started, alive, spawned, receive_task, stdin, client_calls>>
\* the parts of the program a run of the engine leaves alone
qqVars == <<qq>>
moreVars == <<stream, dt, disp>>
restVars == <<busVars, channelVars, cronVars, hbVars, clientVars, qqVars, moreVars>>
envVars == <<scenario, mode, nchunks, nfaults, restVars>>
vars == <<envVars, task, reset_from, loopVars, adapterVars>>
engineVars == <<scenario, mode, nchunks, nfaults, task, reset_from, loopVars, adapterVars>>
\* what a call of the bus alone leaves as it is
offBus == <<engineVars, channelVars, cronVars, hbVars, clientVars, qqVars, moreVars>>
\* what the scheduler leaves as it is
offCron == <<engineVars, busVars, channelVars, hbVars, clientVars, qqVars, moreVars>>
\* what the heartbeat leaves as it is
offHeartbeat == <<engineVars, busVars, channelVars, cronVars, clientVars, qqVars, moreVars>>
\* what a transport client leaves as it is
offClient == <<engineVars, busVars, channelVars, cronVars, hbVars, qqVars, moreVars>>
\* what a streaming turn of the qq connector leaves as it is
offQq == <<engineVars, busVars, channelVars, cronVars, hbVars, clientVars, moreVars>>
\* what the parts before leave as they are, all of them
offMore == <<engineVars, busVars, channelVars, cronVars, hbVars, clientVars, qqVars>>

(* ---------------- asyncio.Lock ---------------- *)
NewLock == [locked |-> FALSE, waiters |-> <<>>]
\* acquire() returns at once only when the lock is free and nobody waits
Acquirable(l) == ~l.locked /\ l.waiters = <<>>
\* variant for C2: acquire() that does not lock
TakeWithoutLocking(l) == l
Take(l) == [l EXCEPT !.locked = TRUE]
Enqueue(l, t) == [l EXCEPT !.waiters = Append(@, t)]
\* release() frees the lock and wakes the first waiter, which alone may resume
Release(l) == [l EXCEPT !.locked = FALSE]
Woken(l, t) == ~l.locked /\ l.waiters # <<>> /\ Head(l.waiters) = t
Resume(l) == [locked |-> TRUE, waiters |-> Tail(l.waiters)]

IdleTask ==
  [pc |-> "idle", kind |-> "none", key |-> NoKey, content |-> "", stream |-> FALSE,
   sid |-> NoSid, retried |-> FALSE, reply |-> "none",
   parts |-> <<>>, unflushed |-> 0, threshold |-> 0,
   result |-> "none", resp |-> <<>>, final |-> <<>>]

\* random.randint(STREAM_BUFFER_MIN, STREAM_BUFFER_MAX): the two ends are drawn
Thresholds == {STREAM_BUFFER_MIN, STREAM_BUFFER_MAX}

TaskIds == DOMAIN task

(* ---------------- the bus on its own ---------------- *)
Dirs == {"inbound", "outbound"}
BusContents == {"hi", "yo"}
ConsumerIds == 1..BusConsumers
IdleConsumer == [pc |-> "idle", dir |-> "none", timed |-> FALSE, msg |-> <<>>]

\* MessageBus.__init__
NewBus ==
  /\ running = TRUE
  /\ queue = [d \in Dirs |-> <<>>]
  /\ getters = [d \in Dirs |-> <<>>]
  /\ calls = [d \in Dirs |-> 0]
  /\ accepted = [d \in Dirs |-> <<>>]
  /\ delivered = [d \in Dirs |-> <<>>]
  /\ warning = "none"

\* a run of the engine makes no call of the bus on its own
BusUnused == NewBus /\ consumer = <<>>

\* no connector is configured
ChannelUnused == allow_from = {} /\ handled = <<>>

(* ---------------- the scheduler's state ---------------- *)
\* None, and 0, which the code's truth tests treat alike
NoTime == 0
\* the clock when the run begins
CronT0 == 1000000
JobIds == 1..MaxJobs
NoJobs == <<>>
IdleHandler == [pc |-> "idle", due |-> <<>>]
IdleRunner == [pc |-> "idle", job |-> 0, stale |-> FALSE]

\* CronService.__init__, with the clock, the file and the counts given
NewCron(now, jobs) ==
  /\ clock = now
  /\ cron_running = FALSE
  /\ store = jobs
  /\ cron_file = jobs
  /\ dirty = FALSE
  /\ timer = NoTime
  /\ handler = IdleHandler
  /\ runner = IdleRunner
  /\ invocations = [j \in JobIds |-> 0]
  /\ executed = {}
  /\ outbounds = [j \in JobIds |-> 0]
  /\ njobs = Cardinality(DOMAIN jobs)
  /\ cron_calls = 0
  /\ advances = 0
  /\ orphans = [j \in JobIds |-> 0]
  /\ raised = [j \in JobIds |-> 0]

\* no scheduler is part of the run
CronUnused == NewCron(0, NoJobs)

(* ---------------- the heartbeat's state ---------------- *)
Absent == <<"absent">>

\* HeartbeatService.__init__, with the file given
NewHeartbeat(content) ==
  /\ hb_file = content
  /\ hb_running = FALSE
  /\ hb_pc = "stopped"
  /\ hb_ticks = 0
  /\ hb_invoked = 0
  /\ hb_notified = 0

HeartbeatUnused == NewHeartbeat(Absent)

(* ---------------- a transport client's state ---------------- *)
\* the session ids of the sessions created on the client
ClientSessions == {1, 2}
IdlePrompt ==
  [pc |-> "idle", session_id |-> NoSid, request_id |-> 0, done |-> FALSE,
   content_parts |-> <<>>, on_chunk |-> <<>>, content |-> <<>>, error |-> "none"]
Transports == {"stdio", "acp"}

\* StdioACPClient.__init__ / ACPClient.__init__, with the prompt calls to come
NewClient(calls_to_come) ==
  /\ request_id = 0
  /\ pending_requests = {}
  /\ message_queue = <<>>
  /\ prompts = [p \in 1..calls_to_come |-> IdlePrompt]
  /\ requests = {}
  /\ updates = [s \in ClientSessions |-> 0]
  /\ started = FALSE
  /\ alive = FALSE
  /\ spawned = 0
  /\ receive_task = "none"
  /\ stdin = <<>>
  /\ client_calls = [c \in {"start", "stop", "cancel"} |-> 0]

\* no call is made of a transport client on its own
ClientUnused == NewClient(0) /\ transport = "stdio"

(* ---------------- a streaming turn of the qq connector: its state ---------------- *)
\* the locals of _process_with_streaming, with the connector's split_threshold
\* and the text the agent is going to stream
NewQq(threshold, text) ==
  [pc |-> "streaming", split_threshold |-> threshold, text |-> text, streamed |-> 0,
   stream_buffer |-> <<>>, qq_segment_buffer |-> <<>>, qq_line_buffer |-> <<>>,
   qq_newline_count |-> 0, qq_in_code_block |-> FALSE, sent |-> <<>>,
   cut_fence |-> FALSE]

\* no turn of the qq connector is part of the run
QqUnused == qq = [NewQq(0, <<>>) EXCEPT !.pc = "none"]

(* ---------------- a chat_stream call: its state ---------------- *)
\* a chunk of the agent: its text, a sequence of characters, and whether it is
\* an agent_thought_chunk
AgentMessageChunk(text, is_thought) == [text |-> text, is_thought |-> is_thought]

\* the locals of one chat_stream call, layer by layer: the parts the client
\* keeps in prompt, the content_parts of the adapter of the client, the
\* chunk_count of IFlowAdapter and what the callback of the loop was given,
\* in order; arrived is every session update the agent wrote, prompt_from the
\* number of them written before the prompt now awaited was sent
NewStream ==
  [pc |-> "prompt", prompts |-> 1, arrived |-> <<>>, prompt_from |-> 0,
   prompt_content_parts |-> <<>>, thought_parts |-> <<>>, content_parts |-> <<>>,
   chunk_count |-> 0, on_chunk |-> <<>>, result |-> <<>>]

StreamUnused == stream = [NewStream EXCEPT !.pc = "none"]

(* ---------------- the dingtalk connector: its state ---------------- *)
\* AICardStatus
PROCESSING == "1"
INPUTING == "2"
FINISHED == "3"
FAILED == "5"

\* the connector after __init__, for one chat: whether _streaming_buffers holds
\* the target key, the card id _streaming_card_ids holds for it (NoCard: none),
\* the state of every card of _ai_cards, in the order they were created; turn
\* and chunks count the turns of the loop and the chunks of the turn; made is
\* the turn each card was created in, calls every call of the platform the
\* connector made, in order
NoCard == 0
NewDt ==
  [pc |-> "idle", turn |-> 0, chunks |-> 0, streaming_buffers |-> FALSE,
   streaming_card_ids |-> NoCard, ai_cards |-> <<>>, made |-> <<>>, calls |-> <<>>]

DtUnused == dt = [NewDt EXCEPT !.pc = "none"]

(* ---------------- the outbound dispatcher: its state ---------------- *)
\* the names a message can carry in its channel field
ChannelNames == {"telegram", "qq", "ghost"}

\* the manager after start_all with the connectors in channels registered,
\* is_running giving which of them run: the outbound queue of the bus, the
\* message _listen_outbound holds, what every connector was given to send, in
\* order, the sends that raised and what was dropped; published counts the
\* messages put on the bus, cancelled tells whether stop_all cancelled the task
NewDisp(channels, is_running) ==
  [pc |-> "consume", channels |-> channels, is_running |-> is_running,
   outbound |-> <<>>, msg |-> 0, published |-> 0, cancelled |-> FALSE,
   sent |-> <<>>, dropped |-> <<>>, failed |-> <<>>]

DispUnused == disp = [NewDisp({}, {}) EXCEPT !.pc = "none"]

MoreUnused == StreamUnused /\ DtUnused /\ DispUnused

RestUnused ==
  BusUnused /\ ChannelUnused /\ CronUnused /\ HeartbeatUnused /\ ClientUnused /\ QqUnused /\ MoreUnused

InitFiles == {EmptyMap, Bind(EmptyMap, PreBound, 1)}

GatewayChats == {<<"telegram", "7">>, <<"feishu", "7">>}

\* the state after construction of the bus, the adapter and the loop
Start(sc) ==
  /\ scenario = sc
  /\ mode \in Modes
  /\ file \in InitFiles
  /\ mappings = file
  /\ session_map = EmptyMap
  /\ adapter_up = FALSE
  /\ session_lock = NewLock
  /\ next_sid = 2
  /\ reset_from = [k \in Keys |-> NoSid]
  /\ nchunks = 0
  /\ nfaults = 0
  /\ inbound = <<>>
  /\ ready = <<>>
  /\ task = [t \in 1..sc.tasks |-> IdleTask]
  /\ user_locks = EmptyMap
  /\ stream_buffers = EmptyMap
  /\ published = [k \in Keys |-> <<>>]
  /\ sent = [k \in Keys |-> <<>>]
  /\ RestUnused

\* a run of the gateway over two chats
Init == Start([name |-> "gateway", keys |-> GatewayChats, tasks |-> GatewayTasks,
               chunks |-> GatewayChunks, faults |-> GatewayFaults])

\* a run that follows the turns of one chat
InitTurn ==
  \E k \in Keys :
    Start([name |-> "turn", keys |-> {k}, tasks |-> TurnTasks, chunks |-> TurnChunks,
           faults |-> TurnFaults])

\* a run that follows the session binding of one chat
InitSession ==
  \E k \in Keys :
    Start([name |-> "session", keys |-> {k}, tasks |-> SessionTasks,
           chunks |-> SessionChunks, faults |-> SessionFaults])

\* a run of concurrent direct calls of the adapter for one chat
InitAdapter ==
  Start([name |-> "adapter", keys |-> {PreBound}, tasks |-> AdapterCalls,
         chunks |-> AdapterChunks, faults |-> AdapterFaults])

(* ---------------- the binding that routes the next prompt ---------------- *)
\* cli reads SessionMappingManager; acp and stdio read their adapter's own
\* _session_map, which the stdio adapter loads from the file when it is built.
EffMap ==
  IF mode = "cli" THEN mappings
  ELSE IF adapter_up THEN session_map
  ELSE IF mode = "stdio" THEN file
  ELSE EmptyMap

(* ---------------- outbound messages ---------------- *)
\* an OutboundMessage; the responses of the model name no file, so media is
\* empty; task is the turn that published it
Out(t, content, streaming, progress, streaming_end) ==
  [task |-> t, content |-> content, streaming |-> streaming, progress |-> progress,
   streaming_end |-> streaming_end]

Plain(t, content) == Out(t, content, FALSE, FALSE, FALSE)
Snapshot(t, content) == Out(t, content, TRUE, TRUE, FALSE)
Terminator(t) == Out(t, <<>>, FALSE, FALSE, TRUE)

\* a handle_streaming_chunk call on the dingtalk connector
Card(t, content, is_final) == [task |-> t, content |-> content, final |-> is_final]

\* variant for C1: a lock that is not shared by the workers of a chat
GetUserLockUnshared(k) == NewLock
\* AgentLoop._get_user_lock
GetUserLock(k) == IF k \in DOMAIN user_locks THEN user_locks[k] ELSE NewLock
\* variant for C5: a turn that ends without releasing its lock
NeverReleaseUserLock(k) == user_locks
\* the end of `async with lock`
ReleaseUserLock(k) == Bind(user_locks, k, Release(GetUserLock(k)))

(* ---------------- how a step of a task ends ---------------- *)
\* a coroutine that ended keeps what it was called with and what it did; its
\* locals are gone
Finished(rec) ==
  [rec EXCEPT !.pc = "done", !.sid = NoSid, !.parts = <<>>,
              !.unflushed = 0, !.threshold = 0]

\* the task goes on inside the adapter
Stay(t, rec) ==
  /\ task' = [task EXCEPT ![t] = rec]
  /\ UNCHANGED <<reset_from, user_locks, stream_buffers, published, sent>>

\* a session/prompt request (or, in cli mode, an iflow run) goes out under sid
PromptSent(t, rec, sid, pc) ==
  /\ task' = [task EXCEPT ![t] =
       [rec EXCEPT !.pc = pc, !.sid = sid, !.parts = <<>>]]
  /\ reset_from' = [reset_from EXCEPT ![rec.key] = NoSid]
  /\ UNCHANGED <<user_locks, stream_buffers, published, sent>>

\* loop.py, _process_with_streaming after chat_stream returned resp, then the
\* tail of _process_message; a direct call just returns resp
Return(t, rec, resp) ==
  LET k == rec.key
      final_content == IF k \in DOMAIN stream_buffers THEN stream_buffers[k] ELSE <<>>
      done == [Finished(rec) EXCEPT !.result = "ok", !.resp = resp]
  IN
  /\ UNCHANGED reset_from
  /\ IF rec.kind # "worker"
     THEN /\ task' = [task EXCEPT ![t] = done]
          /\ UNCHANGED <<user_locks, stream_buffers, published, sent>>
     ELSE
       /\ user_locks' = ReleaseUserLock(k)
       /\ IF rec.stream
          THEN /\ stream_buffers' = Unbind(stream_buffers, k)
               /\ task' = [task EXCEPT ![t] = [done EXCEPT !.final = final_content]]
               /\ IF final_content = <<>>
                  THEN UNCHANGED <<published, sent>>
                  ELSE IF Channel(k) = "dingtalk"
                       THEN /\ sent' = [sent EXCEPT ![k] =
                                   Append(@, Card(t, final_content, TRUE))]
                            /\ UNCHANGED published
                       ELSE /\ published' = [published EXCEPT ![k] =
                                   Append(Append(@, Snapshot(t, final_content)), Terminator(t))]
                            /\ UNCHANGED sent
          ELSE /\ task' = [task EXCEPT ![t] = done]
               /\ published' = [published EXCEPT ![k] =
                      IF resp # <<>> THEN Append(@, Plain(t, resp)) ELSE @]
               /\ UNCHANGED <<stream_buffers, sent>>

\* an exception leaves the adapter: the except clause of _process_with_streaming
\* and of _process_message; a direct call raises to its caller
Raise(t, rec) ==
  LET k == rec.key
      done == [Finished(rec) EXCEPT !.result = "raised"]
  IN
  /\ UNCHANGED <<reset_from, sent>>
  /\ task' = [task EXCEPT ![t] = done]
  /\ IF rec.kind # "worker"
     THEN UNCHANGED <<user_locks, stream_buffers, published>>
     ELSE /\ stream_buffers' = IF rec.stream THEN Unbind(stream_buffers, k) ELSE stream_buffers
          /\ published' = [published EXCEPT ![k] = Append(@, Plain(t, <<ERR>>))]
          /\ user_locks' = ReleaseUserLock(k)

(* ---------------- the bus and the agent loop ---------------- *)
Started == {t \in TaskIds : task[t].pc # "idle"}
NextTask == Cardinality(Started) + 1

\* MessageBus.publish_inbound: put_nowait, dropped when the queue is full
PublishInbound(k, c) ==
  /\ k \in scenario.keys
  /\ Cardinality(Started) + Len(inbound) < scenario.tasks
  /\ inbound' = IF Len(inbound) < max_size
                THEN Append(inbound, [key |-> k, content |-> c]) ELSE inbound
  /\ UNCHANGED <<envVars, task, reset_from, ready, user_locks, stream_buffers, published, sent,
                 adapterVars>>

\* AgentLoop.run: consume_inbound, then create_task(_process_message(msg))
Run ==
  /\ inbound # <<>>
  /\ LET msg == Head(inbound)
         t == NextTask
     IN /\ task' = [task EXCEPT ![t] =
               [IdleTask EXCEPT !.pc = "ready", !.kind = "worker",
                                !.key = msg.key, !.content = msg.content]]
        /\ ready' = Append(ready, t)
  /\ inbound' = Tail(inbound)
  /\ UNCHANGED <<envVars, reset_from, user_locks, stream_buffers, published, sent, adapterVars>>

\* _process_message up to `async with lock`: the event loop runs new tasks in
\* creation order
ProcessMessage ==
  /\ ready # <<>>
  /\ LET t == Head(ready)
         k == task[t].key
         lock == GetUserLock(k)
     IN IF Acquirable(lock)
        THEN /\ user_locks' = Bind(user_locks, k, Take(lock))
             /\ task' = [task EXCEPT ![t].pc = "turn"]
        ELSE /\ user_locks' = Bind(user_locks, k, Enqueue(lock, t))
             /\ task' = [task EXCEPT ![t].pc = "waitlock"]
  /\ ready' = Tail(ready)
  /\ UNCHANGED <<envVars, reset_from, inbound, stream_buffers, published, sent, adapterVars>>

\* the waiter that release() woke gets the lock
LockResume(t) ==
  /\ task[t].pc = "waitlock"
  /\ Woken(GetUserLock(task[t].key), t)
  /\ user_locks' = Bind(user_locks, task[t].key, Resume(GetUserLock(task[t].key)))
  /\ task' = [task EXCEPT ![t].pc = "turn"]
  /\ UNCHANGED <<envVars, reset_from, inbound, ready, stream_buffers, published, sent, adapterVars>>

\* SessionMappingManager.clear_session: delete and rewrite the file, only when
\* the key is in _mappings
ClearedMappings(k) == Unbind(mappings, k)
FileAfterClear(k) == IF k \in DOMAIN mappings THEN ClearedMappings(k) ELSE file

\* _process_message, the /new and /start branch
TurnCommand(t) ==
  /\ task[t].pc = "turn"
  /\ IsCommand(task[t].content)
  /\ LET k == task[t].key IN
     /\ mappings' = ClearedMappings(k)
     /\ file' = FileAfterClear(k)
     /\ published' = [published EXCEPT ![k] = Append(@, Plain(t, <<ACK>>))]
     /\ reset_from' = [reset_from EXCEPT ![k] = Lookup(EffMap, k)]
     /\ user_locks' = ReleaseUserLock(k)
     /\ task' = [task EXCEPT ![t].pc = "done", ![t].result = "ok"]
  /\ UNCHANGED <<envVars, inbound, ready, stream_buffers, sent,
                 session_map, adapter_up, session_lock, next_sid>>

\* _process_message from the context injection to the adapter call, with the
\* start of _process_with_streaming on a streaming channel
TurnBegin(t) ==
  /\ task[t].pc = "turn"
  /\ ~IsCommand(task[t].content)
  /\ LET k == task[t].key
         supports_streaming == Channel(k) \in STREAMING_CHANNELS
     IN IF supports_streaming
        THEN /\ stream_buffers' = Bind(stream_buffers, k, <<>>)
             /\ \E th \in Thresholds :
                  task' = [task EXCEPT ![t].pc = "call", ![t].stream = TRUE,
                                       ![t].unflushed = 0, ![t].threshold = th]
        ELSE /\ task' = [task EXCEPT ![t].pc = "call"]
             /\ UNCHANGED stream_buffers
  /\ UNCHANGED <<envVars, reset_from, inbound, ready, user_locks, published, sent, adapterVars>>

(* ---------------- the agent adapter ---------------- *)
\* the agent answers; a failure counts against the failures of the run
Answer(failed) ==
  /\ failed => nfaults < scenario.faults
  /\ nfaults' = IF failed THEN nfaults + 1 ELSE nfaults
  /\ UNCHANGED <<scenario, mode, nchunks, restVars>>

\* _create_new_session inside `async with self._session_lock`: the re-check,
\* then the create_session request; m is _session_map, held the lock once taken
InLock(t, rec, m, held) ==
  IF rec.key \in DOMAIN m
  THEN /\ session_lock' = Release(held)
       /\ PromptSent(t, rec, m[rec.key], "prompting")
  ELSE /\ session_lock' = held
       /\ Stay(t, [rec EXCEPT !.pc = "creating"])

\* StdioACPAdapter._create_new_session up to its first suspension
CreateNewSession(t, rec, m) ==
  IF Acquirable(session_lock)
  THEN InLock(t, rec, m, Take(session_lock))
  ELSE /\ session_lock' = Enqueue(session_lock, t)
       /\ Stay(t, [rec EXCEPT !.pc = "sesswait"])

\* IFlowAdapter.chat / chat_stream / new_chat: dispatch on the mode, build the
\* mode's adapter on first use, resolve the session up to the first suspension.
\* new_chat first clears the binding: clear_session of the mode's adapter (no
\* save), or of SessionMappingManager in cli mode.
AdapterEnter(t) ==
  /\ task[t].pc = "call"
  /\ LET k == task[t].key
         fresh == task[t].kind = "new_chat"
         rec == task[t]
     IN CASE mode = "cli" ->
               \* _chat_cli: iflow -r <session id> when the key is bound
               LET m == IF fresh THEN ClearedMappings(k) ELSE mappings IN
               /\ mappings' = m
               /\ file' = IF fresh THEN FileAfterClear(k) ELSE file
               /\ PromptSent(t, rec, Lookup(m, k), "cli_run")
               /\ UNCHANGED <<session_map, adapter_up, session_lock, next_sid>>
          [] mode = "acp" ->
               \* ACPAdapter._get_or_create_session
               LET m == IF fresh THEN Unbind(session_map, k) ELSE session_map IN
               /\ adapter_up' = TRUE
               /\ session_map' = m
               /\ IF k \in DOMAIN m
                  THEN Stay(t, [rec EXCEPT !.pc = "acp_load", !.sid = m[k]])
                  ELSE Stay(t, [rec EXCEPT !.pc = "creating"])
               /\ UNCHANGED <<mappings, file, session_lock, next_sid>>
          [] mode = "stdio" ->
               \* StdioACPAdapter.__init__ loads the file; _get_or_create_session
               LET loaded == IF adapter_up THEN session_map ELSE file
                   m == IF fresh THEN Unbind(loaded, k) ELSE loaded
               IN
               /\ adapter_up' = TRUE
               /\ session_map' = m
               /\ IF k \in DOMAIN m
                  THEN /\ PromptSent(t, rec, m[k], "prompting")
                       /\ UNCHANGED session_lock
                  ELSE CreateNewSession(t, rec, m)
               /\ UNCHANGED <<mappings, file, next_sid>>
  /\ UNCHANGED <<envVars, inbound, ready>>

\* the waiter that release() woke enters _create_new_session's critical section
SessionLockResume(t) ==
  /\ task[t].pc = "sesswait"
  /\ Woken(session_lock, t)
  /\ InLock(t, task[t], session_map, Resume(session_lock))
  /\ UNCHANGED <<envVars, inbound, ready, mappings, session_map, adapter_up, file, next_sid>>

\* ACPAdapter._get_or_create_session after `await load_session(session_id)`
AcpLoad(t, loaded) ==
  /\ task[t].pc = "acp_load"
  /\ IF loaded
     THEN PromptSent(t, task[t], task[t].sid, "prompting")
     ELSE Stay(t, [task[t] EXCEPT !.pc = "creating"])
  /\ Answer(~loaded)
  /\ UNCHANGED <<inbound, ready, adapterVars>>

\* create_session returned (a fresh id) or raised: bind and save, then prompt
CreateReturn(t, ok) ==
  /\ task[t].pc = "creating"
  /\ ok => next_sid <= MaxSid
  /\ LET rec == task[t]
         k == rec.key
     IN /\ session_lock' = IF mode = "stdio" THEN Release(session_lock) ELSE session_lock
        /\ IF ok
           THEN /\ session_map' = Bind(session_map, k, next_sid)
                /\ file' = IF mode = "stdio" THEN session_map' ELSE file
                /\ next_sid' = next_sid + 1
                /\ PromptSent(t, rec, next_sid, "prompting")
           ELSE /\ Raise(t, [rec EXCEPT !.reply = "create_failed"])
                /\ UNCHANGED <<session_map, file, next_sid>>
  /\ Answer(~ok)
  /\ UNCHANGED <<inbound, ready, mappings, adapter_up>>

\* variant for C3: a buffer that keeps only the last chunk
AccumulateLastChunk(buf, c) == <<c>>
\* self._stream_buffers[key] = self._stream_buffers.get(key, "") + chunk_text
Accumulate(buf, c) == buf \o <<c>>

\* on_chunk of _process_with_streaming, edit-last-message and card-edit families
OnChunk(t, rec, c) ==
  LET k == rec.key
      buf == Accumulate(IF k \in DOMAIN stream_buffers THEN stream_buffers[k] ELSE <<>>, c)
      u == rec.unflushed + TokLen(c)
  IN
  /\ stream_buffers' = Bind(stream_buffers, k, buf)
  /\ UNCHANGED <<reset_from, user_locks>>
  /\ IF u >= rec.threshold
     THEN /\ \E th \in Thresholds :
               task' = [task EXCEPT ![t] = [rec EXCEPT !.unflushed = 0, !.threshold = th]]
          /\ IF Channel(k) = "dingtalk"
             THEN /\ sent' = [sent EXCEPT ![k] =
                         Append(@, Card(t, buf, FALSE))]
                  /\ UNCHANGED published
             ELSE /\ published' = [published EXCEPT ![k] = Append(@, Snapshot(t, buf))]
                  /\ UNCHANGED sent
     ELSE /\ task' = [task EXCEPT ![t] = [rec EXCEPT !.unflushed = u]]
          /\ UNCHANGED <<published, sent>>

\* the prompt loop takes an agent_message_chunk notification from the queue
PromptChunk(t, c) ==
  /\ task[t].pc = "prompting"
  /\ nchunks < scenario.chunks
  /\ nchunks' = nchunks + 1
  /\ LET rec == [task[t] EXCEPT !.parts = Append(@, c)] IN
     IF rec.kind = "worker" /\ rec.stream
     THEN OnChunk(t, rec, c)
     ELSE Stay(t, rec)
  /\ UNCHANGED <<scenario, mode, nfaults, restVars, inbound, ready, adapterVars>>

\* the replies to session/prompt: a result, the "Invalid request" error, or
\* any other failure (an error reply, a timeout, a closed transport)
PromptOutcomes == {"ok", "invalid", "error"}

\* the response to session/prompt arrived (or the prompt failed): the rest of
\* chat / chat_stream
PromptReturn(t, outcome) ==
  /\ task[t].pc = "prompting"
  /\ LET rec == [task[t] EXCEPT !.reply = outcome]
         k == rec.key
     IN CASE outcome = "ok" ->
               /\ Return(t, rec, rec.parts)
               /\ UNCHANGED adapterVars
          [] outcome = "invalid" /\ mode = "stdio" /\ ~rec.retried ->
               \* _invalidate_session, then _create_new_session and a second prompt
               LET m == Unbind(session_map, k) IN
               /\ session_map' = m
               /\ file' = IF k \in DOMAIN session_map THEN m ELSE file
               /\ CreateNewSession(t, [rec EXCEPT !.retried = TRUE], m)
               /\ UNCHANGED <<mappings, adapter_up, next_sid>>
          [] OTHER ->
               /\ Raise(t, rec)
               /\ UNCHANGED adapterVars
  /\ Answer(outcome # "ok")
  /\ UNCHANGED <<inbound, ready>>

CliResponses == {<<>>, <<"a">>}

\* _chat_cli after the iflow child ended (or timed out)
CliReturn(t, ok, resp, extracted) ==
  /\ task[t].pc = "cli_run"
  /\ (ok /\ extracted) => next_sid <= MaxSid
  /\ LET rec == [task[t] EXCEPT !.reply = IF ok THEN "ok" ELSE "error"]
         k == rec.key
     IN IF ok
        THEN /\ IF rec.sid = NoSid /\ extracted
                THEN /\ mappings' = Bind(mappings, k, next_sid)
                     /\ file' = mappings'
                     /\ next_sid' = next_sid + 1
                ELSE UNCHANGED <<mappings, file, next_sid>>
             /\ Return(t, rec, resp)
        ELSE /\ Raise(t, rec)
             /\ UNCHANGED <<mappings, file, next_sid>>
  /\ Answer(~ok)
  /\ UNCHANGED <<inbound, ready, session_map, adapter_up, session_lock>>

\* the steps of the calls inside the adapter
AdapterNext ==
  \/ \E t \in TaskIds : AdapterEnter(t)
  \/ \E t \in TaskIds, loaded \in BOOLEAN : AcpLoad(t, loaded)
  \/ \E t \in TaskIds, ok \in BOOLEAN : CreateReturn(t, ok)
  \/ \E t \in TaskIds, c \in Tokens : PromptChunk(t, c)
  \/ \E t \in TaskIds, outcome \in PromptOutcomes : PromptReturn(t, outcome)
  \/ \E t \in TaskIds, ok \in BOOLEAN, resp \in CliResponses, extracted \in BOOLEAN :
       CliReturn(t, ok, resp, extracted)

DirectKinds == {"chat", "new_chat"}

\* a caller outside the loop (process_direct, a command) calls IFlowAdapter.chat
\* or new_chat
DirectCall(k, kind) ==
  /\ k \in scenario.keys
  /\ Cardinality(Started) < scenario.tasks
  /\ task' = [task EXCEPT ![NextTask] =
       [IdleTask EXCEPT !.pc = "call", !.kind = kind, !.key = k, !.content = "hi"]]
  /\ UNCHANGED <<envVars, reset_from, loopVars, adapterVars>>

\* the bus and the workers of the loop
LoopNext ==
  \/ \E k \in Keys, c \in Contents : PublishInbound(k, c)
  \/ Run
  \/ ProcessMessage
  \/ \E t \in TaskIds : LockResume(t)
  \/ \E t \in TaskIds : TurnCommand(t)
  \/ \E t \in TaskIds : TurnBegin(t)

\* the gateway over several chats
Next ==
  \/ LoopNext
  \/ AdapterNext
  \/ \E t \in TaskIds : SessionLockResume(t)

\* the gateway with one chat: its turns are serialised, so at most one call is
\* inside the adapter and nobody ever waits for _session_lock
NextChat ==
  \/ LoopNext
  \/ AdapterNext

\* concurrent direct calls of the adapter
NextAdapter ==
  \/ \E k \in Keys, kind \in DirectKinds : DirectCall(k, kind)
  \/ AdapterNext
  \/ \E t \in TaskIds : SessionLockResume(t)

Spec == Init /\ [][Next]_vars
SpecTurn == InitTurn /\ [][NextChat]_vars
SpecSession == InitSession /\ [][NextChat]_vars
SpecAdapter == InitAdapter /\ [][NextAdapter]_vars

(* ---------------- the message bus ---------------- *)
\* a run in which the loop and the adapter take no part; sc holds the bounds
\* of the part that runs
EngineOff(sc) ==
  /\ scenario = sc
  /\ mode = "cli"
  /\ file = EmptyMap
  /\ mappings = EmptyMap
  /\ session_map = EmptyMap
  /\ adapter_up = FALSE
  /\ session_lock = NewLock
  /\ next_sid = 2
  /\ reset_from = [k \in Keys |-> NoSid]
  /\ nchunks = 0
  /\ nfaults = 0
  /\ inbound = <<>>
  /\ ready = <<>>
  /\ task = <<>>
  /\ user_locks = EmptyMap
  /\ stream_buffers = EmptyMap
  /\ published = [k \in Keys |-> <<>>]
  /\ sent = [k \in Keys |-> <<>>]

EngineUnused ==
  EngineOff([name |-> "none", keys |-> {}, tasks |-> 0, chunks |-> 0, faults |-> 0])

InitBus ==
  /\ EngineUnused /\ ChannelUnused /\ CronUnused /\ HeartbeatUnused /\ ClientUnused /\ QqUnused /\ MoreUnused
  /\ NewBus /\ consumer = [c \in ConsumerIds |-> IdleConsumer]

Sum(f) == f["inbound"] + f["outbound"]
\* variant for C11: a queue without a size limit
FullNever(q) == FALSE
\* Queue.full() of a queue built with maxsize = max_size
Full(q) == Len(q) >= BusCapacity
\* variant for C12: a get_nowait() that leaves the message in the queue
PopKeep(q) == q
\* the queue after get_nowait() took its first message
Pop(q) == Tail(q)

\* Queue._wakeup_next: the first suspended get() is resumed (it runs later)
WakeupNext(d, cs) ==
  IF getters[d] = <<>>
  THEN getters' = getters /\ consumer' = cs
  ELSE /\ getters' = [getters EXCEPT ![d] = Tail(@)]
       /\ consumer' = [cs EXCEPT ![Head(getters[d])].pc = "woken"]

\* publish_inbound / publish_outbound: dropped when the bus is stopped or the
\* queue is full (QueueFull is caught), else put_nowait
Publish(d, content) ==
  /\ Sum(calls) < BusPublishes
  /\ calls' = [calls EXCEPT ![d] = @ + 1]
  /\ LET msg == [n |-> calls[d] + 1, content |-> content] IN
     IF ~running
     THEN /\ warning' = "not_running"
          /\ UNCHANGED <<queue, accepted, getters, consumer>>
     ELSE IF Full(queue[d])
     THEN /\ warning' = "queue_full"
          /\ UNCHANGED <<queue, accepted, getters, consumer>>
     ELSE /\ warning' = "none"
          /\ queue' = [queue EXCEPT ![d] = Append(@, msg)]
          /\ accepted' = [accepted EXCEPT ![d] = Append(@, msg)]
          /\ WakeupNext(d, consumer)
  /\ UNCHANGED <<running, delivered, offBus>>

\* Queue.get(): `while self.empty()` suspend, then get_nowait()
Get(c, d, rec) ==
  IF queue[d] = <<>>
  THEN /\ getters' = [getters EXCEPT ![d] = Append(@, c)]
       /\ consumer' = [consumer EXCEPT ![c] = [rec EXCEPT !.pc = "waiting"]]
       /\ UNCHANGED <<queue, delivered>>
  ELSE /\ queue' = [queue EXCEPT ![d] = Pop(@)]
       /\ delivered' = [delivered EXCEPT ![d] = Append(@, <<c, Head(queue[d])>>)]
       /\ consumer' = [consumer EXCEPT ![c] =
                        [rec EXCEPT !.pc = "returned", !.msg = <<Head(queue[d])>>]]
       /\ UNCHANGED getters

\* consume_inbound(timeout) / consume_outbound(timeout) is called
Consume(c, d, timed) ==
  /\ consumer[c].pc = "idle"
  /\ Get(c, d, [consumer[c] EXCEPT !.dir = d, !.timed = timed])
  /\ UNCHANGED <<running, calls, accepted, warning, offBus>>

\* a get() that put_nowait woke runs again
GetResume(c) ==
  /\ consumer[c].pc = "woken"
  /\ Get(c, consumer[c].dir, consumer[c])
  /\ UNCHANGED <<running, calls, accepted, warning, offBus>>

\* asyncio.wait_for gives up: the get() is cancelled and TimeoutError raised;
\* a get() cancelled after it was woken passes the wake-up on
ConsumeTimeout(c) ==
  /\ consumer[c].pc \in {"waiting", "woken"}
  /\ consumer[c].timed
  /\ LET d == consumer[c].dir
         cs == [consumer EXCEPT ![c].pc = "raised"] IN
     IF consumer[c].pc = "waiting"
     THEN /\ getters' = [getters EXCEPT ![d] = SelectSeq(@, LAMBDA x : x # c)]
          /\ consumer' = cs
     ELSE IF queue[d] # <<>>
          THEN WakeupNext(d, cs)
          ELSE getters' = getters /\ consumer' = cs
  /\ UNCHANGED <<running, queue, calls, accepted, delivered, warning, offBus>>

\* MessageBus.stop()
BusStop ==
  /\ running' = FALSE
  /\ UNCHANGED <<queue, getters, consumer, calls, accepted, delivered, warning, offBus>>

\* MessageBus.start()
BusStart ==
  /\ running' = TRUE
  /\ UNCHANGED <<queue, getters, consumer, calls, accepted, delivered, warning, offBus>>

NextBus ==
  \/ \E d \in Dirs, content \in BusContents : Publish(d, content)
  \/ \E c \in ConsumerIds, d \in Dirs, timed \in BOOLEAN : Consume(c, d, timed)
  \/ \E c \in ConsumerIds : GetResume(c)
  \/ \E c \in ConsumerIds : ConsumeTimeout(c)
  \/ BusStop
  \/ BusStart

SpecBus == InitBus /\ [][NextBus]_vars

\* the event loop runs a get() that was woken, and a timeout that was set expires
BusFairness ==
  \A c \in ConsumerIds : WF_vars(GetResume(c)) /\ WF_vars(ConsumeTimeout(c))

SpecBusFair == InitBus /\ [][NextBus]_vars /\ BusFairness

(* ---------------- a connector's allow list ---------------- *)
\* texts are sequences of characters
Chars == {"1", "|"}
RECURSIVE Texts(_)
Texts(n) ==
  IF n = 0 THEN {<<>>}
  ELSE Texts(n - 1) \cup {Append(s, c) : s \in {x \in Texts(n - 1) : Len(x) = n - 1}, c \in Chars}
SenderIds == Texts(SenderLen)
AllowLists == {l \in SUBSET Texts(EntryLen) : Cardinality(l) <= AllowSize}

\* str.split("|"): the pieces between the separators, empty ones included
RECURSIVE Split(_, _)
Split(s, piece) ==
  IF s = <<>> THEN <<piece>>
  ELSE IF Head(s) = "|" THEN <<piece>> \o Split(Tail(s), <<>>)
  ELSE Split(Tail(s), Append(piece, Head(s)))

\* variant for C14: a check that does not skip the empty pieces
is_allowed_any_piece(allow_list, sender_id) ==
  \/ allow_list = {}
  \/ sender_id \in allow_list
  \/ /\ \E i \in 1..Len(sender_id) : sender_id[i] = "|"
     /\ \E i \in 1..Len(Split(sender_id, <<>>)) : Split(sender_id, <<>>)[i] \in allow_list

\* BaseChannel.is_allowed
is_allowed(allow_list, sender_id) ==
  \/ allow_list = {}
  \/ sender_id \in allow_list
  \/ /\ \E i \in 1..Len(sender_id) : sender_id[i] = "|"
     /\ \E i \in 1..Len(Split(sender_id, <<>>)) :
          LET part == Split(sender_id, <<>>)[i] IN part # <<>> /\ part \in allow_list

\* BaseChannel._handle_message: the allow list, then publish_inbound
HandleMessage(sender_id) ==
  /\ Len(handled) < ChannelMessages
  /\ handled' = Append(handled, sender_id)
  /\ inbound' =
       IF is_allowed(allow_from, sender_id) /\ Len(inbound) < max_size
       THEN Append(inbound, [channel |-> "telegram", sender_id |-> sender_id,
                             chat_id |-> "7", content |-> "hi"])
       ELSE inbound
  /\ UNCHANGED <<allow_from, busVars, cronVars, hbVars, clientVars, qqVars, moreVars, scenario, mode, nchunks, nfaults, task, reset_from,
                 ready, user_locks, stream_buffers, published, sent, adapterVars>>

InitChannel ==
  /\ EngineUnused /\ BusUnused /\ CronUnused /\ HeartbeatUnused /\ ClientUnused /\ QqUnused /\ MoreUnused
  /\ allow_from \in AllowLists
  /\ handled = <<>>

NextChannel == \E sender_id \in SenderIds : HandleMessage(sender_id)

SpecChannel == InitChannel /\ [][NextChannel]_vars

(* ---------------- the scheduler ---------------- *)
max_delay_ms == 5 * 60 * 1000
Second == 1000

\* variant for C18: an at-schedule that is due however late it is
compute_next_run_any_age(schedule, now_ms) ==
  IF schedule.kind = "at" THEN schedule.at_ms
  ELSE IF schedule.kind = "every" /\ schedule.every_ms > 0 THEN now_ms + schedule.every_ms
  ELSE NoTime

\* A cron expression is the sequence of its words, that is what is left of
\* the text between its white space.
\* str.lower, on the words that occur
Lower(w) == IF w = "EVERY" THEN "every" ELSE w

\* int(): the words it accepts, and their values
IntWords == {"0", "5", "-5"}
int(w) == CASE w = "0" -> 0 [] w = "5" -> 5 [] w = "-5" -> 0 - 5

\* _parse_simple_cron
parse_simple_cron(expr, now_ms) ==
  LET words == [i \in DOMAIN expr |-> Lower(expr[i])] IN
  IF words = <<>> THEN NoTime
  ELSE IF words = <<"hourly">> THEN now_ms + 3600000
  ELSE IF words = <<"daily">>
  THEN now_ms + (86400 - ((now_ms \div 1000) % 86400)) * 1000
  ELSE IF words = <<"weekly">> THEN now_ms + 7 * 86400 * 1000
  ELSE IF Len(words) >= 2 /\ words[1] = "every"
  THEN IF words[2] \in IntWords THEN now_ms + int(words[2]) * 1000 ELSE NoTime
  ELSE NoTime

\* croniter(expr, base).get_next(), of the croniter library: the next minute
\* for five stars; any other expression used here is rejected with an
\* exception, which _compute_next_run turns into None
croniter_get_next(expr, now_ms) ==
  IF expr = <<"*", "*", "*", "*", "*">> THEN ((now_ms \div 60000) + 1) * 60000
  ELSE NoTime

\* _compute_next_run; the cron kind goes through croniter where the library
\* is installed and through _parse_simple_cron where it is not
compute_next_run(schedule, now_ms) ==
  IF schedule.kind = "at"
  THEN IF schedule.at_ms = 0 THEN NoTime
       ELSE IF schedule.at_ms > now_ms - max_delay_ms THEN schedule.at_ms
       ELSE NoTime
  ELSE IF schedule.kind = "every"
  THEN IF schedule.every_ms <= 0 THEN NoTime ELSE now_ms + schedule.every_ms
  ELSE IF schedule.kind = "cron" /\ schedule.expr # <<>>
  THEN IF scenario.croniter THEN croniter_get_next(schedule.expr, now_ms)
       ELSE parse_simple_cron(schedule.expr, now_ms)
  ELSE NoTime

Job(schedule, now_ms) ==
  [schedule |-> schedule, enabled |-> TRUE, deliver |-> TRUE,
   next_run_at_ms |-> compute_next_run(schedule, now_ms),
   last_status |-> "none", last_error |-> "none"]

At(at_ms) == [kind |-> "at", at_ms |-> at_ms, every_ms |-> 0, expr |-> <<>>]
Every(every_ms) == [kind |-> "every", at_ms |-> 0, every_ms |-> every_ms, expr |-> <<>>]
Cron(expr) == [kind |-> "cron", at_ms |-> 0, every_ms |-> 0, expr |-> expr]

Without(jobs, j) == [i \in DOMAIN jobs \ {j} |-> jobs[i]]
With(jobs, j, job) == [i \in DOMAIN jobs \cup {j} |-> IF i = j THEN job ELSE jobs[i]]

\* _recompute_next_runs
recompute_next_runs(jobs, now_ms) ==
  [j \in DOMAIN jobs |->
     IF jobs[j].enabled
     THEN [jobs[j] EXCEPT !.next_run_at_ms = compute_next_run(jobs[j].schedule, now_ms)]
     ELSE jobs[j]]

Min(S) == CHOOSE x \in S : \A y \in S : x <= y

\* the jobs _get_next_wake_ms and _on_timer look at
Scheduled(jobs) == {j \in DOMAIN jobs : jobs[j].enabled /\ jobs[j].next_run_at_ms # NoTime}

\* _get_next_wake_ms
get_next_wake_ms(jobs) ==
  IF Scheduled(jobs) = {} THEN NoTime
  ELSE Min({jobs[j].next_run_at_ms : j \in Scheduled(jobs)})

RECURSIVE InOrder(_)
InOrder(S) == IF S = {} THEN <<>> ELSE <<Min(S)>> \o InOrder(S \ {Min(S)})

\* variant for C15: a timer that is left alone once it sleeps
ArmTimerOnce(jobs, run) ==
  /\ timer' = IF timer # NoTime THEN timer
              ELSE IF get_next_wake_ms(jobs) = NoTime \/ ~run THEN NoTime
              ELSE get_next_wake_ms(jobs)
  /\ handler' = IdleHandler

\* _arm_timer: the timer task is cancelled, and with it the _on_timer call it
\* is in the middle of, unless that call is the caller and ends here; the new
\* task sleeps max(0, next_wake - now), that is until next_wake
ArmTimer(jobs, run) ==
  /\ timer' = IF get_next_wake_ms(jobs) = NoTime \/ ~run THEN NoTime
              ELSE get_next_wake_ms(jobs)
  /\ handler' = IdleHandler

\* on_job is on_cron_job, which spends its time in process_direct, waiting for
\* the answer to the session/prompt it wrote for the session of "cron:<id>".
\* When _arm_timer cancels the timer task in the middle of it, prompt() is
\* left by the CancelledError and the request stays with the agent.
Orphaned ==
  orphans' = IF scenario.history /\ handler.pc = "on_job"
             THEN [orphans EXCEPT ![Head(handler.due)] = @ + 1]
             ELSE orphans

\* _save_store; the file's modification time changes
SaveStore(jobs) == cron_file' = jobs /\ dirty' = TRUE

\* CronService.start; the file watcher starts with last_mtime = 0
CronStart ==
  /\ ~cron_running
  /\ cron_running' = TRUE
  /\ store' = recompute_next_runs(store, clock)
  /\ SaveStore(store')
  /\ ArmTimer(store', TRUE)
  /\ UNCHANGED <<clock, runner, invocations, executed, outbounds, njobs, cron_calls,
                 advances, orphans, raised, offCron>>

\* the schedules add_job is called with: in a second, and every two seconds
NewSchedules == {At(clock + Second), Every(2 * Second)}

\* CronService.add_job
AddJob(schedule) ==
  /\ njobs < scenario.jobs
  /\ njobs' = njobs + 1
  /\ store' = With(store, njobs + 1, Job(schedule, clock))
  /\ SaveStore(store')
  /\ ArmTimer(store', cron_running)
  /\ Orphaned
  /\ UNCHANGED <<clock, cron_running, runner, invocations, executed, outbounds, cron_calls,
                 advances, raised, offCron>>

\* CronService.remove_job of a job of the store
RemoveJob(j) ==
  /\ cron_calls < scenario.calls
  /\ j \in DOMAIN store
  /\ cron_calls' = cron_calls + 1
  /\ store' = Without(store, j)
  /\ SaveStore(store')
  /\ ArmTimer(store', cron_running)
  /\ Orphaned
  /\ UNCHANGED <<clock, cron_running, runner, invocations, executed, outbounds, njobs,
                 advances, raised, offCron>>

\* CronService.enable_job of a job of the store
EnableJob(j, enabled) ==
  /\ cron_calls < scenario.calls
  /\ j \in DOMAIN store
  /\ cron_calls' = cron_calls + 1
  /\ store' = [store EXCEPT ![j].enabled = enabled,
                             ![j].next_run_at_ms =
                               IF enabled THEN compute_next_run(store[j].schedule, clock)
                               ELSE NoTime]
  /\ SaveStore(store')
  /\ ArmTimer(store', cron_running)
  /\ Orphaned
  /\ UNCHANGED <<clock, cron_running, runner, invocations, executed, outbounds, njobs,
                 advances, raised, offCron>>

\* time passes: a second, or five minutes
Steps == {Second, max_delay_ms}
Advance(d) ==
  /\ advances < scenario.advances
  /\ advances' = advances + 1
  /\ clock' = clock + d
  /\ UNCHANGED <<cron_running, store, cron_file, dirty, timer, handler, runner, invocations,
                 executed, outbounds, njobs, cron_calls, orphans, raised, offCron>>

\* _on_timer calls on_job for job j
Invoked(j) ==
  invocations' = IF scenario.history THEN [invocations EXCEPT ![j] = @ + 1] ELSE invocations

\* the jobs _on_timer finds due, in the order of the store
DueJobs == InOrder({j \in Scheduled(store) : clock >= store[j].next_run_at_ms})

\* tick(): the sleep is over and _on_timer runs up to its first await
TimerFire ==
  /\ cron_running
  /\ timer # NoTime
  /\ clock >= timer
  /\ handler.pc = "idle"
  /\ IF DueJobs = <<>>
     THEN /\ SaveStore(store)
          /\ ArmTimer(store, cron_running)
          /\ UNCHANGED invocations
     ELSE /\ timer' = NoTime
          /\ handler' = [pc |-> "on_job", due |-> DueJobs]
          /\ Invoked(Head(DueJobs))
          /\ UNCHANGED <<cron_file, dirty>>
  /\ UNCHANGED <<clock, cron_running, store, runner, executed, outbounds, njobs, cron_calls,
                 advances, orphans, raised, offCron>>

\* variant for C28: a failure that is recorded as a success
RecordedOk(jobs, j, outcome, held) ==
  IF j \in DOMAIN jobs /\ held
  THEN [jobs EXCEPT ![j].last_status = "ok", ![j].last_error = "none"]
  ELSE jobs

\* _execute_job right after on_job: the status and the text of the exception
\* are written on the job object the call holds
Recorded(jobs, j, outcome, held) ==
  IF j \in DOMAIN jobs /\ held
  THEN [jobs EXCEPT ![j].last_status = outcome,
                    ![j].last_error = IF outcome = "error" THEN "str(e)" ELSE "none"]
  ELSE jobs

\* on_job raised inside _on_timer for job j
Raised(j, outcome) ==
  raised' = IF scenario.failures /\ outcome = "error"
            THEN [raised EXCEPT ![j] = @ + 1]
            ELSE raised

\* _execute_job after on_job: a one-shot job leaves the store, a recurring
\* job gets its next run (on the job object the call holds)
AfterJob(jobs, j, held) ==
  IF j \notin DOMAIN jobs THEN jobs
  ELSE IF jobs[j].schedule.kind = "at" THEN Without(jobs, j)
  ELSE IF held
  THEN [jobs EXCEPT ![j].next_run_at_ms = compute_next_run(jobs[j].schedule, clock)]
  ELSE jobs

\* on_cron_job: the agent's reply is published when the job delivers
Published(j, outcome) ==
  outbounds' = [outbounds EXCEPT ![j] =
                  IF scenario.history /\ outcome = "ok" /\ store[j].deliver
                  THEN @ + 1 ELSE @]

\* _execute_job came to its end for job j
Executed(j) == executed' = IF scenario.history THEN executed \cup {j} ELSE executed

Outcomes == {"ok", "error"}

\* on_job returns or raises inside _on_timer; the next due job is started, or
\* the store is saved and the timer armed
HandlerReturn(outcome) ==
  /\ handler.pc = "on_job"
  /\ LET j == Head(handler.due)
         rest == Tail(handler.due) IN
     /\ Published(j, outcome)
     /\ Executed(j)
     /\ Raised(j, outcome)
     /\ store' = AfterJob(Recorded(store, j, outcome, TRUE), j, TRUE)
     /\ IF rest = <<>>
        THEN /\ SaveStore(store')
             /\ ArmTimer(store', cron_running)
             /\ UNCHANGED invocations
        ELSE /\ handler' = [handler EXCEPT !.due = rest]
             /\ Invoked(Head(rest))
             /\ UNCHANGED <<cron_file, dirty, timer>>
  /\ UNCHANGED <<clock, cron_running, runner, njobs, cron_calls, advances, orphans, offCron>>

\* CronService.run_job up to the await of on_job
RunJob(j, force) ==
  /\ cron_calls < scenario.calls
  /\ runner.pc = "idle"
  /\ j \in DOMAIN store
  /\ force \/ store[j].enabled
  /\ cron_calls' = cron_calls + 1
  /\ runner' = [pc |-> "on_job", job |-> j, stale |-> FALSE]
  /\ UNCHANGED <<clock, cron_running, store, cron_file, dirty, timer, handler, invocations,
                 executed, outbounds, njobs, advances, orphans, raised, offCron>>

\* on_job returns or raises inside run_job
RunJobReturn(outcome) ==
  /\ runner.pc = "on_job"
  /\ UNCHANGED outbounds
  /\ Executed(runner.job)
  /\ store' = AfterJob(Recorded(store, runner.job, outcome, ~runner.stale),
                       runner.job, ~runner.stale)
  /\ SaveStore(store')
  /\ ArmTimer(store', cron_running)
  /\ runner' = IdleRunner
  /\ Orphaned
  /\ UNCHANGED <<clock, cron_running, invocations, njobs, cron_calls, advances, raised, offCron>>

\* watch_file: the file changed, the store is read again and the timer armed
WatcherReload ==
  /\ cron_running
  /\ dirty
  /\ dirty' = FALSE
  /\ store' = recompute_next_runs(cron_file, clock)
  /\ ArmTimer(store', cron_running)
  /\ runner' = IF runner.pc = "on_job" THEN [runner EXCEPT !.stale = TRUE] ELSE runner
  /\ Orphaned
  /\ UNCHANGED <<clock, cron_running, cron_file, invocations, executed, outbounds, njobs,
                 cron_calls, advances, raised, offCron>>

\* the store file when the service is constructed: empty, or one one-shot job
\* due in a second, or overdue by 4 min 59 s, 5 min, 5 min 1 s
InitAts == {CronT0 + Second, CronT0 - max_delay_ms + Second, CronT0 - max_delay_ms,
            CronT0 - max_delay_ms - Second}
InitStores ==
  {NoJobs} \cup
  {With(NoJobs, 1, [Job(At(at), CronT0) EXCEPT !.next_run_at_ms = at]) : at \in InitAts}

\* a run that follows the timer
InitCron ==
  /\ EngineOff([name |-> "timer", jobs |-> TimerJobs, calls |-> TimerCalls,
                advances |-> TimerAdvances, history |-> FALSE,
                failures |-> FALSE])
  /\ BusUnused /\ ChannelUnused /\ HeartbeatUnused /\ ClientUnused /\ QqUnused /\ MoreUnused
  /\ \E jobs \in InitStores : NewCron(CronT0, jobs)

\* a run that follows the executions of the jobs, from an empty store
InitCronFire ==
  /\ EngineOff([name |-> "fire", jobs |-> FireJobs, calls |-> FireCalls,
                advances |-> FireAdvances, history |-> TRUE,
                failures |-> FALSE])
  /\ BusUnused /\ ChannelUnused /\ HeartbeatUnused /\ ClientUnused /\ QqUnused /\ MoreUnused
  /\ NewCron(CronT0, NoJobs)

\* a run that follows the failures of on_job, from an empty store
InitCronError ==
  /\ EngineOff([name |-> "error", jobs |-> ErrorJobs, calls |-> ErrorCalls,
                advances |-> ErrorAdvances, history |-> FALSE,
                failures |-> TRUE])
  /\ BusUnused /\ ChannelUnused /\ HeartbeatUnused /\ ClientUnused /\ QqUnused /\ MoreUnused
  /\ NewCron(CronT0, NoJobs)

\* the cron expressions add_job is called with
CronExprs == {<<"daily">>, <<"every", "5">>, <<"EVERY", "0", "minutes">>, <<"every", "x">>,
              <<"*", "*", "*", "*", "*">>}
CronSchedules == {Cron(expr) : expr \in CronExprs}

\* a run with jobs of the cron kind, with and without the croniter library
InitCronExpr ==
  /\ \E croniter \in BOOLEAN :
       EngineOff([name |-> "expr", jobs |-> ExprJobs, calls |-> ExprCalls,
                  advances |-> ExprAdvances, history |-> FALSE, failures |-> FALSE,
                  croniter |-> croniter])
  /\ BusUnused /\ ChannelUnused /\ HeartbeatUnused /\ ClientUnused /\ QqUnused /\ MoreUnused
  /\ NewCron(CronT0, NoJobs)

NextCronExpr ==
  \/ CronStart
  \/ \E schedule \in CronSchedules : AddJob(schedule)
  \/ \E j \in JobIds, enabled \in BOOLEAN : EnableJob(j, enabled)
  \/ \E d \in Steps : Advance(d)
  \/ TimerFire
  \/ \E outcome \in Outcomes : HandlerReturn(outcome)
  \/ WatcherReload

NextCron ==
  \/ CronStart
  \/ \E schedule \in NewSchedules : AddJob(schedule)
  \/ \E j \in JobIds : RemoveJob(j)
  \/ \E j \in JobIds, enabled \in BOOLEAN : EnableJob(j, enabled)
  \/ \E d \in Steps : Advance(d)
  \/ TimerFire
  \/ \E outcome \in Outcomes : HandlerReturn(outcome)
  \/ \E j \in JobIds, force \in BOOLEAN : RunJob(j, force)
  \/ \E outcome \in Outcomes : RunJobReturn(outcome)
  \/ WatcherReload

\* the agent answers a request whose caller is gone
OrphanAnswered(j) ==
  /\ orphans[j] > 0
  /\ orphans' = [orphans EXCEPT ![j] = @ - 1]
  /\ UNCHANGED <<clock, cron_running, store, cron_file, dirty, timer, handler, runner,
                 invocations, executed, outbounds, njobs, cron_calls, advances, raised, offCron>>

NextCronFire ==
  \/ NextCron
  \/ \E j \in JobIds : OrphanAnswered(j)

SpecCron == InitCron /\ [][NextCron]_vars
SpecCronFire == InitCronFire /\ [][NextCronFire]_vars
SpecCronError == InitCronError /\ [][NextCron]_vars
SpecCronExpr == InitCronExpr /\ [][NextCronExpr]_vars

(* ---------------- the heartbeat ---------------- *)
\* a text is a sequence of tokens: a space, a line feed, the marks a line can
\* begin with, the two checkbox brackets, and a word
HbTokens == {" ", "LF", "#", "<!--", "-", "*", "[ ]", "[x]", "word"}
RECURSIVE HbTexts(_)
HbTexts(n) ==
  IF n = 0 THEN {<<>>}
  ELSE HbTexts(n - 1) \cup
       {Append(s, c) : s \in {x \in HbTexts(n - 1) : Len(x) = n - 1}, c \in HbTokens}

\* str.split("\n")
RECURSIVE SplitLines(_, _)
SplitLines(s, line) ==
  IF s = <<>> THEN <<line>>
  ELSE IF Head(s) = "LF" THEN <<line>> \o SplitLines(Tail(s), <<>>)
  ELSE SplitLines(Tail(s), Append(line, Head(s)))

\* str.strip()
RECURSIVE LStrip(_)
LStrip(s) == IF s # <<>> /\ Head(s) = " " THEN LStrip(Tail(s)) ELSE s
RECURSIVE RStrip(_)
RStrip(s) == IF s # <<>> /\ s[Len(s)] = " " THEN RStrip(SubSeq(s, 1, Len(s) - 1)) ELSE s
Strip(s) == RStrip(LStrip(s))

skip_patterns ==
  {<<"-", " ", "[ ]">>, <<"*", " ", "[ ]">>, <<"-", " ", "[x]">>, <<"*", " ", "[x]">>}

\* variant for C19: only empty lines are skipped
SkipLineIfBlank(line) == Strip(line) = <<>>

\* the test of one line in _is_heartbeat_empty
SkipLine(line) ==
  \/ Strip(line) = <<>>
  \/ Head(Strip(line)) = "#"
  \/ Head(Strip(line)) = "<!--"
  \/ Strip(line) \in skip_patterns

\* _is_heartbeat_empty of what _read_heartbeat_file returned
is_heartbeat_empty(content) ==
  \/ content = Absent
  \/ content = <<>>
  \/ \A i \in 1..Len(SplitLines(content, <<>>)) : SkipLine(SplitLines(content, <<>>)[i])

\* HeartbeatService.start (enabled)
HbStart ==
  /\ ~hb_running
  /\ hb_running' = TRUE
  /\ hb_pc' = "sleeping"
  /\ UNCHANGED <<hb_file, hb_ticks, hb_invoked, hb_notified, offHeartbeat>>

\* HeartbeatService.stop: the loop's task is cancelled wherever it is
HbStop ==
  /\ hb_running
  /\ hb_running' = FALSE
  /\ hb_pc' = "stopped"
  /\ UNCHANGED <<hb_file, hb_ticks, hb_invoked, hb_notified, offHeartbeat>>

\* the interval has passed: _tick up to its first await
HbTick ==
  /\ hb_running
  /\ hb_pc = "sleeping"
  /\ hb_ticks < HeartbeatTicks
  /\ hb_ticks' = hb_ticks + 1
  /\ IF is_heartbeat_empty(hb_file)
     THEN UNCHANGED <<hb_pc, hb_invoked>>
     ELSE hb_pc' = "on_heartbeat" /\ hb_invoked' = hb_invoked + 1
  /\ UNCHANGED <<hb_file, hb_running, hb_notified, offHeartbeat>>

\* what on_heartbeat does: a reply holding HEARTBEAT_OK, another reply, or an
\* exception
HbReplies == {"HEARTBEAT_OK", "report", "error"}

\* on_heartbeat is over; a reply without the token goes to on_notify
HbReply(reply) ==
  /\ hb_pc = "on_heartbeat"
  /\ hb_pc' = "sleeping"
  /\ hb_notified' = IF reply = "report" THEN hb_notified + 1 ELSE hb_notified
  /\ UNCHANGED <<hb_file, hb_running, hb_ticks, hb_invoked, offHeartbeat>>

InitHeartbeat ==
  /\ EngineUnused /\ BusUnused /\ ChannelUnused /\ CronUnused /\ ClientUnused /\ QqUnused /\ MoreUnused
  /\ \E content \in HbTexts(HeartbeatLen) \cup {Absent} : NewHeartbeat(content)

NextHeartbeat ==
  \/ HbStart
  \/ HbStop
  \/ HbTick
  \/ \E reply \in HbReplies : HbReply(reply)

SpecHeartbeat == InitHeartbeat /\ [][NextHeartbeat]_vars

(* ---------------- a transport client ---------------- *)
\* StdioACPClient and ACPClient share the code modelled here: they differ in
\* how a line reaches the agent and comes back, and in what the receive loop
\* does when the connection is gone.
\* The agent's notifications are agent_message_chunk updates with a text; the
\* text an agent writes for a session is <<session, n>>, its n-th for it.
\* The errors are named by their kind: "error" is StdioACPError / ACPError,
\* "connection_error" and "timeout_error" are its two subclasses.

\* start() / connect(): nothing when the flag is set; else a child is spawned
\* (a connection is opened), the flag set and a receive loop created
ClientStart ==
  /\ client_calls["start"] < ClientStarts
  /\ client_calls' = [client_calls EXCEPT !["start"] = @ + 1]
  /\ IF started
     THEN UNCHANGED <<started, alive, spawned, receive_task, requests>>
     ELSE /\ started' = TRUE
          /\ alive' = TRUE
          /\ spawned' = spawned + 1
          /\ receive_task' = "running"
          /\ requests' = {}
  /\ UNCHANGED <<request_id, pending_requests, message_queue, prompts, updates,
                 transport, stdin, offClient>>

\* stop() / disconnect(): the receive task is cancelled, the child terminated
\* (the socket closed), the flag cleared
ClientStop ==
  /\ client_calls["stop"] < ClientStops
  /\ client_calls' = [client_calls EXCEPT !["stop"] = @ + 1]
  /\ receive_task' = "none"
  /\ alive' = FALSE
  /\ started' = FALSE
  /\ requests' = {}
  /\ UNCHANGED <<request_id, pending_requests, message_queue, prompts, updates,
                 transport, spawned, stdin, offClient>>

\* the child process exits / the WebSocket is closed by the other side
AgentExit ==
  /\ alive
  /\ alive' = FALSE
  /\ requests' = {}
  /\ UNCHANGED <<request_id, pending_requests, message_queue, prompts, updates,
                 transport, started, spawned, receive_task, stdin, client_calls, offClient>>

\* _receive_loop when nothing more can arrive: readline() returns no line and
\* the loop breaks; recv() raises ConnectionClosed, the flag is cleared and
\* the loop breaks
ReceiveEnd ==
  /\ receive_task = "running"
  /\ ~alive
  /\ receive_task' = "ended"
  /\ started' = IF transport = "acp" THEN FALSE ELSE started
  /\ UNCHANGED <<request_id, pending_requests, message_queue, prompts, requests, updates,
                 transport, alive, spawned, stdin, client_calls, offClient>>

\* cancel(): a session/cancel notification is written
ClientCancel(session_id) ==
  /\ client_calls["cancel"] < ClientCancels
  /\ client_calls' = [client_calls EXCEPT !["cancel"] = @ + 1]
  /\ stdin' = IF started /\ alive
              THEN Append(stdin, [method |-> "session/cancel", sessionId |-> session_id])
              ELSE stdin
  /\ UNCHANGED <<request_id, pending_requests, message_queue, prompts, requests, updates,
                 transport, started, alive, spawned, receive_task, offClient>>

\* _receive_loop, a line without an id: _message_queue.put(message)
Deliver(q, message) == Append(q, message)

\* the handlers of prompt()'s try: asyncio.TimeoutError becomes the timeout
\* error, any other Exception the plain error
Reraised(e) == IF e = "asyncio.TimeoutError" THEN "timeout_error" ELSE "error"

\* prompt(), up to its first wait: the request id, the future, the request
\* written to the agent. Writing to an agent that is gone raises, unless the
\* pipe has not noticed yet, and then the line is lost.
ClientPrompt(p, session_id, noticed) ==
  /\ prompts[p].pc = "idle"
  /\ alive => noticed
  /\ ~noticed => transport = "stdio"
  /\ IF ~started
     THEN /\ prompts' = [prompts EXCEPT ![p] =
                 [IdlePrompt EXCEPT !.pc = "raised", !.session_id = session_id,
                                    !.error = "connection_error"]]
          /\ UNCHANGED <<request_id, pending_requests, requests, stdin>>
     ELSE /\ request_id' = request_id + 1
          /\ IF alive
             THEN /\ pending_requests' = pending_requests \cup {request_id + 1}
                  /\ requests' = requests \cup {[id |-> request_id + 1, sessionId |-> session_id]}
                  /\ stdin' = Append(stdin, [method |-> "session/prompt", sessionId |-> session_id])
                  /\ prompts' = [prompts EXCEPT ![p] =
                        [IdlePrompt EXCEPT !.pc = "get", !.session_id = session_id,
                                           !.request_id = request_id + 1]]
             ELSE IF noticed
             THEN /\ prompts' = [prompts EXCEPT ![p] =
                        [IdlePrompt EXCEPT !.pc = "raised", !.session_id = session_id,
                                           !.request_id = request_id + 1,
                                           !.error = Reraised("ConnectionResetError")]]
                  /\ UNCHANGED <<pending_requests, requests, stdin>>
             ELSE /\ pending_requests' = pending_requests \cup {request_id + 1}
                  /\ prompts' = [prompts EXCEPT ![p] =
                        [IdlePrompt EXCEPT !.pc = "get", !.session_id = session_id,
                                           !.request_id = request_id + 1]]
                  /\ UNCHANGED <<requests, stdin>>
  /\ UNCHANGED <<message_queue, updates, transport, started, alive, spawned, receive_task,
                 client_calls, offClient>>

\* the agent writes a session/update for a session it is working on, and
\* _receive_loop queues it
ReceiveUpdate(session_id) ==
  /\ alive /\ receive_task = "running"
  /\ \E r \in requests : r.sessionId = session_id
  /\ updates[1] + updates[2] < ClientUpdates
  /\ updates' = [updates EXCEPT ![session_id] = @ + 1]
  /\ message_queue' =
       Deliver(message_queue,
               [sessionId |-> session_id, text |-> <<session_id, updates[session_id] + 1>>])
  /\ UNCHANGED <<request_id, pending_requests, prompts, requests, transport, started, alive,
                 spawned, receive_task, stdin, client_calls, offClient>>

\* the agent answers a request, and _receive_loop resolves the future of a
\* request that is still pending
ReceiveResponse(r) ==
  /\ alive /\ receive_task = "running"
  /\ r \in requests
  /\ requests' = requests \ {r}
  /\ pending_requests' = pending_requests \ {r.id}
  /\ prompts' = [p \in DOMAIN prompts |->
                   IF prompts[p].request_id = r.id /\ r.id \in pending_requests
                   THEN [prompts[p] EXCEPT !.done = TRUE]
                   ELSE prompts[p]]
  /\ UNCHANGED <<request_id, message_queue, updates, transport, started, alive, spawned,
                 receive_task, stdin, client_calls, offClient>>

\* what prompt() returns: the parts joined
Returned_content(call) == [call EXCEPT !.pc = "returned", !.content = call.content_parts]

\* _message_queue.get() returns in a prompt() that waits in it: the chunk
\* is kept and handed to on_chunk; the loop ends when the future is done.
\* Each waiting call puts itself at the end of the queue's getters again
\* every five seconds at most, so any of them may be the one that is served.
ClientGet(p) ==
  /\ prompts[p].pc = "get"
  /\ message_queue # <<>>
  /\ message_queue' = Tail(message_queue)
  /\ LET msg == Head(message_queue)
         call == [prompts[p] EXCEPT !.content_parts = Append(@, msg.text),
                                    !.on_chunk = Append(@, msg.text)]
     IN  prompts' = [prompts EXCEPT ![p] =
                       IF call.done THEN Returned_content(call) ELSE call]
  /\ UNCHANGED <<request_id, pending_requests, requests, updates, transport, started, alive,
                 spawned, receive_task, stdin, client_calls, offClient>>

\* the wait in get() times out, or has not begun, and the future is done
ClientBreak(p) ==
  /\ prompts[p].pc = "get"
  /\ prompts[p].done
  /\ prompts' = [prompts EXCEPT ![p] = Returned_content(prompts[p])]
  /\ UNCHANGED <<request_id, pending_requests, message_queue, requests, updates, transport,
                 started, alive, spawned, receive_task, stdin, client_calls, offClient>>

\* the prompt's own timeout passes before the future is done: the loop
\* raises the timeout error inside the try, whose handlers pop the request
\* and raise again
ClientTimeout(p) ==
  /\ prompts[p].pc = "get"
  /\ ~prompts[p].done
  /\ pending_requests' = pending_requests \ {prompts[p].request_id}
  /\ prompts' = [prompts EXCEPT ![p].pc = "raised", ![p].error = Reraised("timeout_error")]
  /\ UNCHANGED <<request_id, message_queue, requests, updates, transport, started, alive,
                 spawned, receive_task, stdin, client_calls, offClient>>

\* the task that awaits prompt() is cancelled while the call waits in get():
\* CancelledError is no Exception, no handler of the try runs and the request
\* stays in _pending_requests
PromptCancelled(p) ==
  /\ prompts[p].pc = "get"
  /\ prompts' = [prompts EXCEPT ![p].pc = "cancelled", ![p].error = "asyncio.CancelledError"]
  /\ UNCHANGED <<request_id, pending_requests, message_queue, requests, updates, transport,
                 started, alive, spawned, receive_task, stdin, client_calls, offClient>>

\* the prompt calls of a run, and the request ids they get
PromptIds == 1..ClientPrompts

InitClient ==
  /\ EngineUnused
  /\ BusUnused /\ ChannelUnused /\ CronUnused /\ HeartbeatUnused /\ QqUnused /\ MoreUnused
  /\ NewClient(ClientPrompts)
  /\ transport \in Transports

NextClient ==
  \/ ClientStart
  \/ ClientStop
  \/ AgentExit
  \/ ReceiveEnd
  \/ \E session_id \in ClientSessions : ClientCancel(session_id)
  \/ \E p \in PromptIds, session_id \in ClientSessions, noticed \in BOOLEAN :
       ClientPrompt(p, session_id, noticed)
  \/ \E session_id \in ClientSessions : ReceiveUpdate(session_id)
  \/ \E id \in PromptIds, session_id \in ClientSessions :
       ReceiveResponse([id |-> id, sessionId |-> session_id])
  \/ \E p \in PromptIds : ClientGet(p)
  \/ \E p \in PromptIds : ClientBreak(p)
  \/ \E p \in PromptIds : ClientTimeout(p)
  \/ \E p \in PromptIds : PromptCancelled(p)

SpecClient == InitClient /\ [][NextClient]_vars

(* ---------------- a streaming turn of the qq connector ---------------- *)
\* a text is a sequence of characters: a backtick ("tick"), a line feed ("LF"),
\* a space, a letter. The texts the agent streams are made of pieces: a fence of three
\* backticks, a line feed, a space, a letter.
Pieces == {<<"tick", "tick", "tick">>, <<"LF">>, <<" ">>, <<"a">>}
RECURSIVE QqTexts(_)
QqTexts(n) ==
  IF n = 0 THEN {<<>>}
  ELSE {<<>>} \cup {piece \o s : piece \in Pieces, s \in QqTexts(n - 1)}

Whitespace == {" ", "LF"}
\* variant for C23: a strip() that removes nothing
StripNothing(s) == s
\* str.strip() of a text
RECURSIVE StripText(_)
StripText(s) ==
  IF s = <<>> THEN s
  ELSE IF Head(s) \in Whitespace THEN StripText(Tail(s))
  ELSE IF s[Len(s)] \in Whitespace THEN StripText(SubSeq(s, 1, Len(s) - 1))
  ELSE s

\* str.index("\n"), for a text that holds a line feed
RECURSIVE IndexLF(_)
IndexLF(s) == IF Head(s) = "LF" THEN 0 ELSE 1 + IndexLF(Tail(s))
HasLF(s) == \E i \in 1..Len(s) : s[i] = "LF"

\* complete_line.strip().startswith("```")
IsFence(complete_line) ==
  LET t == StripText(complete_line)
  IN  Len(t) >= 3 /\ SubSeq(t, 1, 3) = <<"tick", "tick", "tick">>

\* variant for C24: line feeds inside a code block count as well
CountsAnyLine(in_code_block) == TRUE
\* a line feed counts towards the threshold when it is outside a code block
CountsLine(in_code_block) == ~in_code_block

\* variant for C40: a send without the test for an empty text
QqSendAny(sends, content, final) == Append(sends, [content |-> content, final |-> final])
\* the message qq_channel.send() is called with; whether the stream had ended
\* is kept with it
QqSend(sends, content, final) ==
  IF content # <<>> THEN Append(sends, [content |-> content, final |-> final]) ELSE sends

\* variant for C31: an on_chunk with an if in the place of the while, which
\* takes one line out of the buffer per chunk
DrainOneLine(q) ==
  IF ~HasLF(q.qq_line_buffer) THEN q
  ELSE
    LET idx == IndexLF(q.qq_line_buffer)
        complete_line == SubSeq(q.qq_line_buffer, 1, idx)
        rest == SubSeq(q.qq_line_buffer, idx + 2, Len(q.qq_line_buffer))
        in_block == IF IsFence(complete_line) THEN ~q.qq_in_code_block
                    ELSE q.qq_in_code_block
        segment_buffer == q.qq_segment_buffer \o complete_line \o <<"LF">>
        count == IF CountsLine(in_block) THEN q.qq_newline_count + 1
                 ELSE q.qq_newline_count
        flush == CountsLine(in_block) /\ count >= q.split_threshold
    IN  [q EXCEPT
          !.qq_line_buffer = rest,
          !.qq_in_code_block = in_block,
          !.qq_segment_buffer = IF flush THEN <<>> ELSE segment_buffer,
          !.qq_newline_count = IF flush THEN 0 ELSE count,
          !.sent = IF flush
                   THEN (IF StripText(segment_buffer) # <<>>
                         THEN Append(@, [content |-> StripText(segment_buffer), final |-> FALSE])
                         ELSE @)
                   ELSE @]

\* the while loop of on_chunk: one complete line after the other leaves the
\* line buffer and joins the segment, which is sent when enough lines are counted
RECURSIVE DrainLines(_)
DrainLines(q) ==
  IF ~HasLF(q.qq_line_buffer) THEN q
  ELSE
    LET idx == IndexLF(q.qq_line_buffer)
        complete_line == SubSeq(q.qq_line_buffer, 1, idx)
        rest == SubSeq(q.qq_line_buffer, idx + 2, Len(q.qq_line_buffer))
        in_block == IF IsFence(complete_line) THEN ~q.qq_in_code_block
                    ELSE q.qq_in_code_block
        segment_buffer == q.qq_segment_buffer \o complete_line \o <<"LF">>
        count == IF CountsLine(in_block) THEN q.qq_newline_count + 1
                 ELSE q.qq_newline_count
        flush == CountsLine(in_block) /\ count >= q.split_threshold
    IN  DrainLines([q EXCEPT
          !.qq_line_buffer = rest,
          !.qq_in_code_block = in_block,
          !.qq_segment_buffer = IF flush THEN <<>> ELSE segment_buffer,
          !.qq_newline_count = IF flush THEN 0 ELSE count,
          !.sent = IF flush THEN QqSend(@, StripText(segment_buffer), FALSE) ELSE @])

\* a chunk that ends after the first n characters of the text ends between
\* two backticks
CutsFence(text, n) == n < Len(text) /\ text[n] = "tick" /\ text[n + 1] = "tick"

\* on_chunk of the qq connector, with the next n characters of the stream
QqOnChunk(n) ==
  /\ qq.pc = "streaming"
  /\ qq.streamed + n <= Len(qq.text)
  /\ LET chunk_text == SubSeq(qq.text, qq.streamed + 1, qq.streamed + n)
         q == [qq EXCEPT !.streamed = @ + n, !.stream_buffer = @ \o chunk_text,
                         !.cut_fence = @ \/ CutsFence(qq.text, qq.streamed + n)]
     IN  qq' = IF q.split_threshold > 0
               THEN DrainLines([q EXCEPT !.qq_line_buffer = @ \o chunk_text])
               ELSE q
  /\ UNCHANGED offQq

\* chat_stream has returned: what is left is sent
QqStreamEnd ==
  /\ qq.pc = "streaming"
  /\ qq.streamed = Len(qq.text)
  /\ LET final_content == qq.stream_buffer
         content == IF qq.split_threshold <= 0 THEN StripText(final_content)
                    ELSE StripText(qq.qq_segment_buffer \o qq.qq_line_buffer)
     IN  qq' = [qq EXCEPT !.pc = "done", !.stream_buffer = <<>>,
                          !.sent = QqSend(@, content, TRUE)]
  /\ UNCHANGED offQq

\* chat_stream has raised: the buffer is dropped and nothing more is sent
QqStreamFail ==
  /\ qq.pc = "streaming"
  /\ qq' = [qq EXCEPT !.pc = "failed", !.stream_buffer = <<>>]
  /\ UNCHANGED offQq

InitQq ==
  /\ EngineUnused
  /\ BusUnused /\ ChannelUnused /\ CronUnused /\ HeartbeatUnused /\ ClientUnused
  /\ MoreUnused
  /\ \E threshold \in 0..QqThreshold, text \in QqTexts(QqPieces) : qq = NewQq(threshold, text)

NextQq ==
  \/ \E n \in 1..QqChunkLen : QqOnChunk(n)
  \/ QqStreamEnd
  \/ QqStreamFail

SpecQq == InitQq /\ [][NextQq]_vars

(* ---------------- the claims ---------------- *)
\* the positions between acquiring and releasing the chat's lock
TurnPcs == {"turn", "call", "sesswait", "creating", "acp_load", "prompting", "cli_run"}
InTurn(t) == task[t].kind = "worker" /\ task[t].pc \in TurnPcs
Ended(t) == task[t].kind = "worker" /\ task[t].pc = "done"
Range(s) == {s[i] : i \in DOMAIN s}
\* the outbounds a turn published, in order
OutsOf(t) ==
  LET Mine(o) == o.task = t IN SelectSeq(published[task[t].key], Mine)
Contains(s, sub) ==
  \E i \in 0..(Len(s) - Len(sub)) : SubSeq(s, i + 1, i + Len(sub)) = sub

\* C1: at any instant and for every key, at most one worker is between
\* acquiring and releasing that key's lock; workers of different keys overlap.
C1_OneTurnPerKey ==
  \A t \in TaskIds, u \in TaskIds :
    (t # u /\ InTurn(t) /\ InTurn(u)) => task[t].key # task[u].key

\* C1 happens: a worker is inside its turn while a second worker of the same
\* chat has reached the lock and waits for it.
C1_Witness ==
  \E t \in TaskIds, u \in TaskIds :
    /\ task[t].key = task[u].key
    /\ InTurn(t) /\ task[t].pc \in {"prompting", "cli_run"}
    /\ task[u].pc = "waitlock"

\* C2: for every key, every outbound published for a message consumed earlier
\* comes before any outbound published for a message consumed later (task
\* numbers follow the order of consumption).
C2_PerKeyOrder ==
  \A k \in Keys : \A i \in DOMAIN published[k], j \in DOMAIN published[k] :
    i < j => published[k][i].task <= published[k][j].task

\* C2 happens: two messages of one chat were consumed before the first turn
\* ended, and both turns have published.
C2_Witness ==
  \E k \in Keys : \E i \in DOMAIN published[k], j \in DOMAIN published[k] :
    /\ published[k][i].task < published[k][j].task
    /\ Ended(published[k][i].task) /\ Ended(published[k][j].task)

EditLast == {"telegram", "discord", "slack"}
StreamTurn(t) ==
  task[t].kind = "worker" /\ task[t].stream /\ Channel(task[t].key) \in EditLast
IsSnapshot(o) == o.streaming /\ o.progress /\ ~o.streaming_end
IsTerminator(o) == o.streaming_end /\ o.content = <<>>
\* snapshots whose contents grow by prefix
SnapshotChain(outs) ==
  /\ \A i \in DOMAIN outs : IsSnapshot(outs[i])
  /\ \A i \in 1..(Len(outs) - 1) : IsPrefix(outs[i].content, outs[i + 1].content)
\* snapshot*, then one terminator
StreamShape(outs) ==
  /\ outs # <<>>
  /\ IsTerminator(outs[Len(outs)])
  /\ SnapshotChain(SubSeq(outs, 1, Len(outs) - 1))

C4_ResponseDelivered ==
  \A t \in TaskIds :
    (Ended(t) /\ ~IsCommand(task[t].content) /\ task[t].result = "ok"
       /\ task[t].resp # <<>>)
    => \E o \in Range(published[task[t].key]) \cup Range(sent[task[t].key]) :
         o.task = t /\ Contains(o.content, task[t].resp)

\* C5: a turn that raised has published exactly one error notice to its chat,
\* and no lock stays held: a held lock has a worker inside its turn, and a
\* free lock with waiters has its first waiter ready to resume.
C5_ErrorNoticeAndRelease ==
  /\ \A t \in TaskIds : (Ended(t) /\ task[t].result = "raised") =>
       Cardinality({i \in DOMAIN published[task[t].key] :
                      /\ published[task[t].key][i].task = t
                      /\ published[task[t].key][i].content = <<ERR>>}) = 1
  /\ \A k \in DOMAIN user_locks :
       /\ user_locks[k].locked => \E t \in TaskIds : InTurn(t) /\ task[t].key = k
       /\ \A i \in DOMAIN user_locks[k].waiters :
            task[user_locks[k].waiters[i]].pc = "waitlock"

\* C5 happens: a turn raised, and a later message of the same chat was
\* processed to its end.
C5_Witness ==
  \E t \in TaskIds, u \in TaskIds :
    /\ t < u /\ task[t].key = task[u].key
    /\ Ended(t) /\ task[t].result = "raised"
    /\ Ended(u) /\ task[u].result = "ok" /\ task[u].resp # <<>>

\* C6: concurrent calls for one unbound key invoke create_session once: no two
\* create_session requests for the same key are ever in flight together.
C6_SingleCreate ==
  \A t \in TaskIds, u \in TaskIds :
    (t # u /\ task[t].pc = "creating" /\ task[u].pc = "creating")
    => task[t].key # task[u].key

\* C7: a /new or /start inbound makes no agent call, removes the session
\* binding of its chat and publishes exactly one outbound, the acknowledgement.
C7_CommandResets ==
  [][\A t \in TaskIds :
       (task[t].pc = "turn" /\ IsCommand(task[t].content) /\ task'[t] # task[t])
       => /\ task'[t].pc = "done"
          /\ published'[task[t].key] = Append(published[task[t].key], Plain(t, <<ACK>>))
          /\ task[t].key \notin DOMAIN EffMap']_vars

\* C8: after a /new or /start for a chat, the next prompt sent for that chat
\* carries a session id different from the one bound before the command.
C8_FreshAfterReset ==
  [][\A k \in Keys :
       (reset_from[k] # NoSid /\ reset_from'[k] = NoSid)
       => \A t \in TaskIds :
            (task'[t] # task[t] /\ task'[t].key = k) => task'[t].sid # reset_from[k]]_vars

\* C9: a call whose prompt was answered with the invalid-session error has
\* re-created the session and re-sent the prompt once before it fails.
C9_InvalidRetried ==
  \A t \in TaskIds :
    (task[t].pc = "done" /\ task[t].reply = "invalid") => task[t].retried

\* C10: whenever no adapter call is in progress, the session-map file equals
\* the binding map that routes the prompts.
Quiescent ==
  \A t \in TaskIds :
    task[t].pc \notin {"call", "sesswait", "creating", "acp_load", "prompting", "cli_run"}
C10_FileMatchesMap == Quiescent => file = EffMap

(* ---------------- the claims on the message bus ---------------- *)
\* C11: neither queue ever holds more than max_size messages, and a publish
\* call on a full queue drops the new message: the queue, and what was
\* accepted so far, stay as they were, and no consume call is touched.
C11_BoundedAndDropsNew ==
  [][\A d \in Dirs :
       /\ Len(queue'[d]) <= BusCapacity
       /\ (calls'[d] # calls[d] /\ Len(queue[d]) >= BusCapacity) =>
            (queue' = queue /\ accepted' = accepted /\ consumer' = consumer)]_vars

\* a publish call found its queue full while the bus was running
C11_Witness ==
  /\ warning = "queue_full"
  /\ \E d \in Dirs : Len(queue[d]) = BusCapacity /\ calls[d] > Len(accepted[d])

\* the messages of a delivery log, in the order get() returned them
Returned(log) == [i \in 1..Len(log) |-> log[i][2]]

\* C12: within each direction, the messages consume calls returned, followed
\* by those still queued, are the accepted messages in publish order; the
\* accepted messages are pairwise distinct publish calls, and a message is
\* held by the one consume call it was returned to, as it was published.
C12_FifoExactlyOnce ==
  \A d \in Dirs :
    /\ accepted[d] = Returned(delivered[d]) \o queue[d]
    /\ \A i, j \in 1..Len(accepted[d]) : i < j => accepted[d][i].n < accepted[d][j].n
    /\ \A i \in 1..Len(delivered[d]) :
         /\ consumer[delivered[d][i][1]].pc = "returned"
         /\ consumer[delivered[d][i][1]].dir = d
         /\ consumer[delivered[d][i][1]].msg = <<delivered[d][i][2]>>
    /\ \A c \in ConsumerIds :
         (consumer[c].pc = "returned" /\ consumer[c].dir = d) =>
           Cardinality({i \in 1..Len(delivered[d]) : delivered[d][i][1] = c}) = 1

\* two different messages of one direction went to two consume calls, and
\* one of the three publish calls of that direction was dropped
C12_Witness ==
  \E d \in Dirs :
    /\ Len(delivered[d]) = 2
    /\ delivered[d][1][1] # delivered[d][2][1]
    /\ delivered[d][1][2].content # delivered[d][2][2].content
    /\ calls[d] = 3

\* the consume call is suspended in get() on an empty queue
Blocked(c) == consumer[c].pc = "waiting"

\* C13: a consume call that is blocked on an empty queue while the bus is
\* stopped eventually returns or raises (read in the claim's favour: unless
\* the bus is started again first).
C13_StopUnblocksConsumers ==
  \A c \in ConsumerIds :
    (Blocked(c) /\ ~running) ~> (consumer[c].pc \in {"returned", "raised"} \/ running)

(* ---------------- the claim on the allow list ---------------- *)
\* the non-empty maximal runs of s without a separator
Segments(s) ==
  {SubSeq(s, p[1], p[2]) :
     p \in {q \in (1..Len(s)) \X (1..Len(s)) :
              /\ q[1] <= q[2]
              /\ \A m \in q[1]..q[2] : s[m] # "|"
              /\ q[1] = 1 \/ s[q[1] - 1] = "|"
              /\ q[2] = Len(s) \/ s[q[2] + 1] = "|"}}

\* the sender equals an entry, or one of its non-empty segments does
Listed(list, s) == s \in list \/ Segments(s) \cap list # {}

SendersOf(q) == [i \in 1..Len(q) |-> q[i].sender_id]

\* C14: the messages on the inbound queue are, in order, the incoming
\* messages whose sender the allow list lists, and all incoming messages when
\* the list is empty: a sender that is not listed is never published.
C14_OnlyListedSendersPublished ==
  SendersOf(inbound) =
    SelectSeq(handled, LAMBDA s : allow_from = {} \/ Listed(allow_from, s))

\* with a non-empty list, of two incoming messages one was rejected and one
\* was published whose sender is listed by a segment only
C14_Witness ==
  /\ allow_from # {}
  /\ Len(handled) = 2
  /\ Len(inbound) = 1
  /\ inbound[1].sender_id \notin allow_from

(* ---------------- the claims on the scheduler ---------------- *)
\* C15: while the scheduler runs and no _on_timer call is executing, a timer
\* is armed for a time not later than the next run of any enabled job that
\* has one.
C15_TimerArmedAtMinimum ==
  (cron_running /\ handler.pc = "idle") =>
    \A j \in Scheduled(store) : timer # NoTime /\ timer <= store[j].next_run_at_ms

\* two jobs are scheduled for different times, the later one created first,
\* and the timer is armed for the earlier time
C15_Witness ==
  /\ cron_running /\ handler.pc = "idle"
  /\ \E i, j \in Scheduled(store) :
       /\ i < j
       /\ store[j].next_run_at_ms < store[i].next_run_at_ms
       /\ timer = store[j].next_run_at_ms

\* the one-shot times around the five-minute limit, seen from the clock
AtsAround(now_ms) ==
  {now_ms + Second, now_ms, now_ms - max_delay_ms + Second, now_ms - max_delay_ms + 1,
   now_ms - max_delay_ms, now_ms - max_delay_ms - 1, now_ms - max_delay_ms - Second}

\* the one-shot job was due five minutes or more before the run began
TooOld(job) == job.schedule.kind = "at" /\ job.schedule.at_ms <= CronT0 - max_delay_ms

\* C18: the next run of an at-schedule is at_ms when at_ms is later than now
\* minus five minutes, and none otherwise; and while the scheduler runs, an
\* enabled one-shot job that was five minutes or more overdue has no next
\* run, the timer is not armed for it and _on_timer does not run it.
C18_FiveMinuteLimit ==
  /\ \A at_ms \in AtsAround(clock) :
       compute_next_run(At(at_ms), clock) =
         IF at_ms > clock - 5 * 60 * 1000 THEN at_ms ELSE NoTime
  /\ cron_running =>
       \A j \in DOMAIN store :
         (store[j].enabled /\ TooOld(store[j])) =>
           /\ store[j].next_run_at_ms = NoTime
           /\ timer # store[j].schedule.at_ms
           /\ \A i \in 1..Len(handler.due) : handler.due[i] # j

\* the scheduler was started with a job 4 min 59 s overdue and _on_timer runs
\* it before the clock moved
C18_Witness ==
  /\ advances = 0
  /\ handler.pc = "on_job"
  /\ store[Head(handler.due)].schedule.at_ms = CronT0 - max_delay_ms + Second

\* the scheduler runs, after a reload, with a job 5 min 1 s overdue in its
\* store, and no timer is armed
C18_WitnessSkipped ==
  /\ cron_running /\ ~dirty /\ timer = NoTime
  /\ \E j \in DOMAIN store :
       store[j].enabled /\ store[j].schedule.at_ms = CronT0 - max_delay_ms - Second

\* job j is a one-shot job of the given jobs
AtJobIn(jobs, j) == j \in DOMAIN jobs /\ jobs[j].schedule.kind = "at"

\* C16: when neither _on_timer nor run_job is in the middle of a job, a
\* one-shot job that _execute_job has run to its end, on_job having returned
\* or raised, is neither in the store nor in the store file.
C16_ExecutedAtJobsAreGone ==
  (handler.pc = "idle" /\ runner.pc = "idle") =>
    \A j \in executed : ~AtJobIn(store, j) /\ ~AtJobIn(cron_file, j)

\* C17: _on_timer calls on_job at most once for a one-shot job, and at most
\* one outbound message is published for it.
C17_AtJobRunsOnce ==
  [][\A j \in DOMAIN store :
       (AtJobIn(store, j) /\ invocations'[j] # invocations[j]) =>
         (invocations[j] = 0 /\ outbounds[j] = 0)]_vars

(* ---------------- the claim on the heartbeat ---------------- *)
\* the lines of a text: the runs of tokens between line feeds
LinesOf(text) ==
  LET breaks == {0, Len(text) + 1} \cup {i \in 1..Len(text) : text[i] = "LF"} IN
  {SubSeq(text, p[1] + 1, p[2] - 1) :
     p \in {q \in breaks \X breaks :
              q[1] < q[2] /\ \A m \in breaks : ~(q[1] < m /\ m < q[2])}}

Spaces(line, from, to) == \A k \in from..to : line[k] = " "

\* the line is empty, a heading, a comment or an empty checkbox
Quiet(line) ==
  \/ Spaces(line, 1, Len(line))
  \/ \E i \in 1..Len(line) : Spaces(line, 1, i - 1) /\ line[i] \in {"#", "<!--"}
  \/ \E i \in 1..Len(line) - 2 :
       /\ Spaces(line, 1, i - 1)
       /\ line[i] \in {"-", "*"} /\ line[i + 1] = " " /\ line[i + 2] = "[ ]"
       /\ Spaces(line, i + 3, Len(line))

NothingToDo(content) == content = Absent \/ \A line \in LinesOf(content) : Quiet(line)

\* C19: when HEARTBEAT.md is absent, or each of its lines is empty, a heading,
\* a comment or an empty checkbox, the ticks invoke neither on_heartbeat nor
\* on_notify.
C19_QuietFileNoCallbacks ==
  NothingToDo(hb_file) => (hb_invoked = 0 /\ hb_notified = 0 /\ hb_pc # "on_heartbeat")

\* a tick has read a file of an empty checkbox and an empty line
C19_Witness ==
  /\ hb_ticks >= 1
  /\ hb_file # Absent
  /\ NothingToDo(hb_file)
  /\ \E line \in LinesOf(hb_file) : "[ ]" \in {line[i] : i \in 1..Len(line)}
  /\ Cardinality(LinesOf(hb_file)) = 2

(* ---------------- claim on the transport client ---------------- *)
\* the prompt calls that are waiting for their answers
InFlight == {p \in DOMAIN prompts : prompts[p].pc = "get"}

\* two prompts are in flight, for two different sessions
TwoSessionsInFlight ==
  \E p \in InFlight, q \in InFlight : prompts[p].session_id # prompts[q].session_id

\* prompt call p takes a notification in this step
Consumes(p) == Len(prompts'[p].on_chunk) = Len(prompts[p].on_chunk) + 1

\* C20: with two prompts in flight on one client for two different sessions, a
\* session/update notification is consumed only by the prompt whose session id
\* is the notification's sessionId: the chunk a prompt keeps and hands to
\* on_chunk is a chunk of its own session.
C20_UpdateConsumedByOwnPrompt ==
  [][\A p \in DOMAIN prompts :
       (TwoSessionsInFlight /\ Consumes(p))
         => /\ Head(message_queue).sessionId = prompts[p].session_id
            /\ prompts'[p].content_parts =
                 Append(prompts[p].content_parts, Head(message_queue).text)]_vars

\* a prompt has returned a content that holds a chunk of the other prompt's
\* session, and the other prompt has returned without it
C20_ForeignChunkReturned ==
  \E p \in DOMAIN prompts :
    /\ prompts[p].pc = "returned"
    /\ \E i \in 1..Len(prompts[p].content), q \in DOMAIN prompts \ {p} :
         /\ prompts[p].content[i][1] # prompts[p].session_id
         /\ prompts[p].content[i][1] = prompts[q].session_id
         /\ prompts[q].pc = "returned" /\ prompts[q].content = <<>>

(* ---------------- claims on the client's failures ---------------- *)
\* prompt call p runs into its timeout in this step
TimesOut(p) == prompts[p].pc = "get" /\ prompts'[p].pc = "raised"

\* C21: when a prompt exceeds its timeout, the client removes the request
\* from the pending requests, writes a session/cancel notification for the
\* prompt's session, and raises a timeout error to the caller.
C21_TimeoutPopsCancelsRaises ==
  [][\A p \in PromptIds :
       TimesOut(p)
         => /\ prompts[p].request_id \notin pending_requests'
            /\ stdin' = Append(stdin, [method |-> "session/cancel",
                                       sessionId |-> prompts[p].session_id])
            /\ prompts'[p].error = "timeout_error"]_vars

\* a prompt has run into its timeout with the agent alive: its request is
\* no longer pending, the agent still works on it, and no session/cancel was
\* ever written
C21_TimedOutUncancelled ==
  \E p \in PromptIds :
    /\ prompts[p].pc = "raised" /\ prompts[p].request_id # 0
    /\ prompts[p].request_id \notin pending_requests
    /\ \E r \in requests : r.id = prompts[p].request_id
    /\ \A i \in 1..Len(stdin) : stdin[i].method # "session/cancel"

\* the prompt calls whose requests are pending
Pending == {p \in PromptIds : prompts[p].pc = "get" /\ prompts[p].request_id \in pending_requests}

\* C22: when the connection drops while requests are pending (the child's
\* stdout ends, the WebSocket closes), every pending request is completed
\* with a connection error: once the receive loop has ended for that reason,
\* no request is pending and the calls that were waiting hold a connection error.
C22_DropFailsPending ==
  [][(receive_task = "running" /\ receive_task' = "ended")
       => /\ pending_requests' = {}
          /\ \A p \in Pending : prompts'[p].error = "connection_error"]_vars

\* the receive loop has ended after a drop and a prompt still waits for the
\* answer to a request written before it
C22_WaitsAfterDrop ==
  /\ receive_task = "ended"
  /\ \E p \in Pending, i \in 1..Len(stdin) :
       stdin[i] = [method |-> "session/prompt", sessionId |-> prompts[p].session_id]

\* C30: after the child process has exited and the receive loop has ended,
\* the stdio client is marked as not started, and the next start() spawns a
\* new child and creates a new receive loop.
C30_ExitClearsStartedAndRespawns ==
  [][transport = "stdio"
       => /\ receive_task' = "ended" => ~started'
          /\ (receive_task = "ended" /\ client_calls'["start"] = client_calls["start"] + 1)
               => (spawned' = spawned + 1 /\ receive_task' = "running" /\ alive')]_vars

\* start() has been called on a stdio client whose child had exited, and
\* there is still no child and no receive loop
C30_StartedAgainWithoutChild ==
  /\ transport = "stdio"
  /\ client_calls["start"] = 2
  /\ spawned = 1
  /\ receive_task = "ended"
  /\ ~alive /\ started

(* ---------------- claims on the qq connector's streaming ---------------- *)
Blank(t) == \A k \in 1..Len(t) : t[k] \in Whitespace

\* c is t without the whitespace at its two ends
IsStripOf(c, t) ==
  /\ c # <<>> => (c[1] \notin Whitespace /\ c[Len(c)] \notin Whitespace)
  /\ \E i \in 0..Len(t) :
       /\ i + Len(c) <= Len(t)
       /\ SubSeq(t, i + 1, i + Len(c)) = c
       /\ \A k \in 1..Len(t) : (k <= i \/ k > i + Len(c)) => t[k] \in Whitespace

FenceLine(line) ==
  \E i \in 0..Len(line) :
    /\ i + 3 <= Len(line)
    /\ \A k \in 1..i : line[k] = " "
    /\ \A k \in (i + 1)..(i + 3) : line[k] = "tick"

\* the number of fence lines of a text
Fences(content) ==
  LET lines == SplitLines(content, <<>>)
  IN  Cardinality({k \in 1..Len(lines) : FenceLine(lines[k])})

EntersBound(t) ==
  /\ task[t].pc = "call" /\ task'[t].pc # "call"
  /\ task[t].kind # "new_chat"
  /\ task[t].key \in DOMAIN EffMap

\* C25: for a key that has a session binding, chat and chat_stream send the
\* prompt under the bound session id without calling load_session or
\* create_session.
C25_BoundSessionUsedDirectly ==
  [][\A t \in TaskIds :
       EntersBound(t)
         => /\ task'[t].pc \in {"prompting", "cli_run"}
            /\ task'[t].sid = EffMap[task[t].key]]_vars

\* a call for a bound key has prompted under another session id than the one
\* that was bound, which it created after load_session failed, and the key is
\* bound to the new id
C25_ReboundAfterLoad ==
  \E t \in TaskIds :
    /\ mode = "acp"
    /\ task[t].pc = "prompting"
    /\ task[t].kind # "new_chat"
    /\ ~task[t].retried
    /\ task[t].sid > 2
    /\ EffMap[task[t].key] = task[t].sid

\* the session/prompt requests in flight for the session of job j: the one
\* of the on_job call _on_timer waits for, the one of the on_job call run_job
\* waits for, and those of cancelled calls the agent has not answered
InFlightFor(j) ==
  orphans[j]
  + (IF handler.pc = "on_job" /\ Head(handler.due) = j THEN 1 ELSE 0)
  + (IF runner.pc = "on_job" /\ runner.job = j THEN 1 ELSE 0)

\* C26: at any instant at most one session/prompt request is in flight per
\* agent session id, scheduler jobs that are run again included.
C26_OnePromptPerSession ==
  \A j \in JobIds : InFlightFor(j) <= 1

\* the timer runs a job again whose first prompt the agent has not answered,
\* with no run_job call involved
C26_RunAgainWhileInFlight ==
  \E j \in JobIds :
    /\ orphans[j] = 1
    /\ handler.pc = "on_job" /\ Head(handler.due) = j
    /\ runner.pc = "idle"
    /\ cron_calls = 0

\* _on_timer starts on the jobs it found due
Fires == handler.pc = "idle" /\ handler'.pc = "on_job"

\* the next_run_at_ms of the jobs of a list, as the store has them
RunTimes(due) == [i \in DOMAIN due |-> store[due[i]].next_run_at_ms]

NonDecreasing(times) == \A a, b \in DOMAIN times : a < b => times[a] <= times[b]

\* C27: when a timer fire finds several due jobs, it executes them one at a
\* time in non-decreasing order of their next_run_at_ms.
C27_DueJobsInTimeOrder ==
  [][Fires => NonDecreasing(RunTimes(handler'.due))]_vars

\* _on_timer is at the first of two due jobs, and the second was due earlier
C27_LaterJobFirst ==
  /\ handler.pc = "on_job"
  /\ Len(handler.due) = 2
  /\ \A i \in 1..2 : handler.due[i] \in DOMAIN store
  /\ ~NonDecreasing(RunTimes(handler.due))
  /\ invocations[handler.due[1]] = 1
  /\ invocations[handler.due[2]] = 0

\* on_job raises inside _on_timer for job j
Raises(j) ==
  /\ handler.pc = "on_job"
  /\ Head(handler.due) = j
  /\ raised'[j] = raised[j] + 1

\* C28: when on_job raises for a job, the scheduler records last_status =
\* error and last_error for it, still executes the remaining due jobs of the
\* fire, saves the store and arms the timer again; a recurring job gets a new
\* next_run_at_ms and a one-shot job is removed.
C28_FailureRecordedAndFireGoesOn ==
  [][\A j \in JobIds :
       Raises(j) =>
         /\ IF store[j].schedule.kind = "at"
            THEN j \notin DOMAIN store'
            ELSE /\ j \in DOMAIN store'
                 /\ store'[j].last_status = "error"
                 /\ store'[j].last_error = "str(e)"
                 /\ store'[j].next_run_at_ms = clock + store[j].schedule.every_ms
                 /\ store'[j].next_run_at_ms > store[j].next_run_at_ms
         /\ IF Tail(handler.due) # <<>>
            THEN handler' = [pc |-> "on_job", due |-> Tail(handler.due)]
            ELSE /\ cron_file' = store'
                 /\ handler'.pc = "idle"
                 /\ timer' = get_next_wake_ms(store')]_vars

\* the first of two due jobs raised, the second ran to its end, and the store
\* file holds the failure of the first and the success of the second
C28_Witness ==
  \E j, k \in JobIds :
    /\ j < k
    /\ cron_calls = 0
    /\ raised[j] = 1 /\ raised[k] = 0
    /\ handler.pc = "idle"
    /\ {j, k} \subseteq DOMAIN cron_file
    /\ cron_file[j].last_status = "error"
    /\ cron_file[k].last_status = "ok"
    /\ cron_file[j].next_run_at_ms = cron_file[k].next_run_at_ms
    /\ timer = store[j].next_run_at_ms

\* next_run_at_ms of job j is computed in this step: the job is new, or the
\* value changes
Computed(j) ==
  /\ j \in DOMAIN store'
  /\ j \in DOMAIN store => store'[j].next_run_at_ms # store[j].next_run_at_ms

Recurring(job) == job.schedule.kind \in {"every", "cron"}

\* C29: whenever next_run_at_ms of a recurring job is computed (after an
\* execution, on add_job, enable_job, start or reload), the result is null
\* or strictly greater than the time at which it was computed.
C29_NextRunInTheFuture ==
  [][\A j \in JobIds :
       (Computed(j) /\ Recurring(store'[j]))
         => (store'[j].next_run_at_ms = NoTime \/ store'[j].next_run_at_ms > clock)]_vars

\* a job of the cron kind was executed and is due again at the very time of
\* its execution
C29_DueAgainAtOnce ==
  \E j \in DOMAIN store :
    /\ store[j].schedule.kind = "cron"
    /\ store[j].last_status # "none"
    /\ store[j].enabled
    /\ store[j].next_run_at_ms = clock
    /\ timer = clock

(* ---------------- claims on the segments of the qq connector ---------------- *)
\* the locals on_chunk works on
QqLocals(q) ==
  <<q.qq_segment_buffer, q.qq_line_buffer, q.qq_newline_count, q.qq_in_code_block, q.sent>>

\* the locals after one on_chunk call with the first n characters of the text
InOneChunk(threshold, text, n) ==
  DrainLines([NewQq(threshold, text) EXCEPT !.qq_line_buffer = SubSeq(text, 1, n)])

\* C31: with split_threshold > 0 the segments sent, and the code-block state,
\* depend on the concatenation of the chunks only: after any chunks they are
\* what one chunk holding the same text gives, also when a chunk ended inside
\* a code fence.
C31_ChunkBoundariesDoNotMatter ==
  (qq.split_threshold > 0 /\ qq.pc = "streaming") =>
    QqLocals(qq) = QqLocals(InOneChunk(qq.split_threshold, qq.text, qq.streamed))

\* a chunk ended between two backticks of a fence, and a segment with the
\* whole code block was sent before the stream ended
C31_Witness ==
  /\ qq.split_threshold > 0
  /\ qq.cut_fence
  /\ \E i \in 1..Len(qq.sent) : ~qq.sent[i].final /\ Fences(qq.sent[i].content) = 2

\* the characters of a text that are not whitespace, in order
RECURSIVE Solid(_)
Solid(s) ==
  IF s = <<>> THEN <<>>
  ELSE IF Head(s) \in Whitespace THEN Solid(Tail(s))
  ELSE <<Head(s)>> \o Solid(Tail(s))

\* the contents of the segments sent, one after the other
RECURSIVE Joined(_)
Joined(sends) == IF sends = <<>> THEN <<>> ELSE Head(sends).content \o Joined(Tail(sends))

\* C40: with split_threshold > 0 the segments sent for a turn hold every
\* non-whitespace character of the streamed text exactly once and in order,
\* the last line without a line feed included, and no segment sent is empty
\* or whitespace only.
C40_SegmentsHoldTheText ==
  qq.split_threshold > 0 =>
    /\ \A i \in 1..Len(qq.sent) : ~Blank(qq.sent[i].content)
    /\ qq.pc = "done" => Solid(Joined(qq.sent)) = Solid(qq.text)
    /\ qq.pc = "streaming" =>
         Solid(Joined(qq.sent) \o qq.qq_segment_buffer \o qq.qq_line_buffer)
           = Solid(SubSeq(qq.text, 1, qq.streamed))

\* a turn in several segments whose text ends in a line without a line feed
C40_Witness ==
  /\ qq.split_threshold > 0
  /\ qq.pc = "done"
  /\ Len(qq.sent) >= 2
  /\ qq.text[Len(qq.text)] = "a"
  /\ qq.sent[Len(qq.sent)].final
  /\ Len(qq.text) > QqChunkLen
  /\ \E i \in 1..Len(qq.text) : qq.text[i] = " "

(* ---------------- chat_stream, from the client to the loop ---------------- *)
\* the session updates the agent writes while a prompt is awaited
StreamLen == 3
StreamTexts == {<<>>, <<"a">>, <<"b">>}
StreamChunks == {AgentMessageChunk(text, is_thought) : text \in StreamTexts, is_thought \in BOOLEAN}

\* "".join(parts)
RECURSIVE join(_)
join(parts) == IF parts = <<>> THEN <<>> ELSE Head(parts) \o join(Tail(parts))

\* a handle_chunk that gives the loop every chunk it is given
ForwardsAll(chunk) == TRUE

\* the condition of handle_chunk of IFlowAdapter.chat_stream: what it gives to
\* the callback of the loop (the callback is there: the loop streams)
Forwards(chunk) == ~chunk.is_thought /\ chunk.text # <<>>

\* a session update of the agent, as prompt reads it from the message queue: an
\* update with an empty text is skipped; the text of another one is kept with
\* the parts of the prompt and the chunk is given to on_chunk, the handle_chunk
\* of the adapter of the client, which keeps the text of a chunk that is not a
\* thought and gives every chunk to its own on_chunk, the handle_chunk of
\* IFlowAdapter, which gives the loop the text of the chunks it forwards
StreamUpdate(chunk) ==
  /\ stream.pc = "prompt"
  /\ Len(stream.arrived) < StreamLen
  /\ stream' =
       IF chunk.text = <<>>
       THEN [stream EXCEPT !.arrived = Append(@, chunk)]
       ELSE [stream EXCEPT
               !.arrived = Append(@, chunk),
               !.prompt_content_parts = IF chunk.is_thought THEN @ ELSE Append(@, chunk.text),
               !.thought_parts = IF chunk.is_thought THEN Append(@, chunk.text) ELSE @,
               !.content_parts = IF ~chunk.is_thought /\ chunk.text # <<>>
                                 THEN Append(@, chunk.text) ELSE @,
               !.chunk_count = IF Forwards(chunk) THEN @ + 1 ELSE @,
               !.on_chunk = IF Forwards(chunk) THEN Append(@, chunk.text) ELSE @]
  /\ UNCHANGED <<offMore, qqVars, dt, disp>>

\* the response of the prompt without an error: chat_stream returns the parts
\* it kept, joined, or else the content of the response, the parts of the
\* prompt joined
StreamReturn ==
  /\ stream.pc = "prompt"
  /\ stream' = [stream EXCEPT
                  !.pc = "returned",
                  !.result = IF join(stream.content_parts) # <<>>
                             THEN join(stream.content_parts)
                             ELSE join(stream.prompt_content_parts)]
  /\ UNCHANGED <<offMore, qqVars, dt, disp>>

\* the response of the prompt with the error "Invalid request": the first
\* time the session is made anew, content_parts is cleared and the prompt is
\* sent again, with parts of its own; the second time chat_stream raises
StreamInvalid ==
  /\ stream.pc = "prompt"
  /\ stream' =
       IF stream.prompts = 1
       THEN [stream EXCEPT
               !.prompts = 2, !.prompt_from = Len(stream.arrived),
               !.prompt_content_parts = <<>>, !.thought_parts = <<>>,
               !.content_parts = <<>>]
       ELSE [stream EXCEPT !.pc = "raised"]
  /\ UNCHANGED <<offMore, qqVars, dt, disp>>

\* the response of the prompt with another error: chat_stream raises
StreamError ==
  /\ stream.pc = "prompt"
  /\ stream' = [stream EXCEPT !.pc = "raised"]
  /\ UNCHANGED <<offMore, qqVars, dt, disp>>

InitStream ==
  /\ EngineUnused
  /\ BusUnused /\ ChannelUnused /\ CronUnused /\ HeartbeatUnused /\ ClientUnused /\ QqUnused
  /\ DtUnused /\ DispUnused
  /\ stream = NewStream

NextStream ==
  \/ \E chunk \in StreamChunks : StreamUpdate(chunk)
  \/ StreamReturn
  \/ StreamInvalid
  \/ StreamError

SpecStream == InitStream /\ [][NextStream]_vars

(* ---------------- claims on chat_stream ---------------- *)
\* the texts of the chunks, in order
RECURSIVE ChunkTexts(_)
ChunkTexts(chunks) ==
  IF chunks = <<>> THEN <<>> ELSE <<Head(chunks).text>> \o ChunkTexts(Tail(chunks))

IsThought(chunk) == chunk.is_thought
IsContent(chunk) == ~chunk.is_thought /\ chunk.text # <<>>
HasText(chunk) == chunk.text # <<>>

\* the session updates written since the prompt that was answered was sent
OfLastPrompt == SubSeq(stream.arrived, stream.prompt_from + 1, Len(stream.arrived))

\* C34, as stated: the callback of the loop is given every chunk with a text,
\* thought or not, in the order of arrival, and chat_stream returns the texts
\* of the chunks which are not thoughts, joined
C34_EveryChunkForwarded ==
  /\ stream.on_chunk = ChunkTexts(SelectSeq(stream.arrived, HasText))
  /\ stream.pc = "returned" =>
       stream.result = join(ChunkTexts(SelectSeq(OfLastPrompt, IsContent)))

\* C34, amended: the callback of the loop is given the chunks which are not
\* thoughts and have a text, and no other, in the order of arrival; chat_stream
\* returns the texts of those of the prompt that was answered, joined
C34_ContentChunksForwarded ==
  /\ stream.on_chunk = ChunkTexts(SelectSeq(stream.arrived, IsContent))
  /\ stream.chunk_count = Len(stream.on_chunk)
  /\ stream.pc = "returned" =>
       stream.result = join(ChunkTexts(SelectSeq(OfLastPrompt, IsContent)))

\* chat_stream returned after a thought and two chunks of content
C34_Witness ==
  /\ stream.pc = "returned"
  /\ Len(stream.on_chunk) = 2
  /\ \E i \in 1..Len(stream.arrived) :
       stream.arrived[i].is_thought /\ stream.arrived[i].text # <<>>
  /\ stream.result = stream.on_chunk[1] \o stream.on_chunk[2]

(* ---------------- the dingtalk connector: cards and chunks ---------------- *)
\* the turns of the loop for the chat and the buffers of a turn the loop gives
\* the connector before the final one
DtTurns == 3
DtChunks == 2

is_card_in_terminal_state(state) == state \in {FINISHED, FAILED}

\* start_streaming: with the target key absent from _streaming_buffers it is
\* put there and _create_ai_card is called, which gives a card in state
\* PROCESSING, kept in _ai_cards and, for the key, in _streaming_card_ids, or
\* None (no token, no template, a failure of the platform); with the key
\* present nothing is done
start_streaming(d, created) ==
  IF d.streaming_buffers
  THEN d
  ELSE IF created
       THEN [d EXCEPT !.streaming_buffers = TRUE,
                      !.ai_cards = Append(@, PROCESSING),
                      !.made = Append(@, d.turn),
                      !.streaming_card_ids = Len(d.ai_cards) + 1]
       ELSE [d EXCEPT !.streaming_buffers = TRUE]

\* _stream_ai_card on a card which is not FINISHED: the state after the call
\* of the platform went through, or failed
StreamedState(state, finished, ok) ==
  IF ~ok THEN FAILED
  ELSE IF finished THEN FINISHED
  ELSE IF state = PROCESSING THEN INPUTING
  ELSE state

\* a handle_streaming_chunk that sends the text of every chunk when it has no
\* card to update
FallsBack(is_final) == TRUE

\* the condition under which handle_streaming_chunk, with no card to update,
\* sends the text as markdown
SendsMarkdown(is_final) == is_final

\* handle_streaming_chunk: start_streaming if the key has no buffer; the card
\* of the key, when there is one and its state is not terminal, is updated
\* with the content, and else the content is sent as markdown if the chunk is
\* final; a final chunk removes the buffer and the card id of the key
handle_streaming_chunk(d0, is_final, ok, created) ==
  LET d == start_streaming(d0, created)
      card == d.streaming_card_ids
      live == card # NoCard /\ ~is_card_in_terminal_state(d.ai_cards[card])
      via == IF live THEN "card" ELSE IF SendsMarkdown(is_final) THEN "markdown" ELSE "none"
      call == [turn |-> d.turn, card |-> card, is_final |-> is_final, via |-> via,
               ok |-> IF via = "none" THEN TRUE ELSE ok]
      after == [d EXCEPT
                  !.calls = Append(@, call),
                  !.ai_cards = IF live
                               THEN [@ EXCEPT ![card] = StreamedState(@, is_final, ok)]
                               ELSE @]
  IN IF is_final
     THEN [after EXCEPT !.streaming_buffers = FALSE, !.streaming_card_ids = NoCard]
     ELSE after

\* _process_with_streaming for a message of the chat begins: start_streaming
DtStartStreaming(created) ==
  /\ dt.pc = "idle"
  /\ dt.turn < DtTurns
  /\ dt' = [start_streaming([dt EXCEPT !.turn = @ + 1], created)
              EXCEPT !.pc = "turn", !.chunks = 0]
  /\ UNCHANGED <<offMore, qqVars, stream, disp>>

\* on_chunk of the turn with enough characters gathered: the buffer so far is
\* given to the connector, not final
DtChunk(ok) ==
  /\ dt.pc = "turn"
  /\ dt.chunks < DtChunks
  /\ dt' = [handle_streaming_chunk(dt, FALSE, ok, FALSE) EXCEPT !.chunks = @ + 1]
  /\ UNCHANGED <<offMore, qqVars, stream, disp>>

\* chat_stream returned with a content: it is given to the connector, final
DtFinal(ok) ==
  /\ dt.pc = "turn"
  /\ dt' = [handle_streaming_chunk(dt, TRUE, ok, FALSE) EXCEPT !.pc = "idle"]
  /\ UNCHANGED <<offMore, qqVars, stream, disp>>

\* chat_stream raised, or returned without a content: the turn ends and the
\* connector is not called
DtNoFinal ==
  /\ dt.pc = "turn"
  /\ dt' = [dt EXCEPT !.pc = "idle"]
  /\ UNCHANGED <<offMore, qqVars, stream, disp>>

InitDt ==
  /\ EngineUnused
  /\ BusUnused /\ ChannelUnused /\ CronUnused /\ HeartbeatUnused /\ ClientUnused /\ QqUnused
  /\ StreamUnused /\ DispUnused
  /\ dt = NewDt

NextDt ==
  \/ \E created \in BOOLEAN : DtStartStreaming(created)
  \/ \E ok \in BOOLEAN : DtChunk(ok)
  \/ \E ok \in BOOLEAN : DtFinal(ok)
  \/ DtNoFinal

SpecDt == InitDt /\ [][NextDt]_vars

(* ---------------- claims on the cards of the dingtalk connector ---------------- *)
\* the calls of handle_streaming_chunk in which the update of a card failed
FailedUpdates == {i \in 1..Len(dt.calls) : dt.calls[i].via = "card" /\ ~dt.calls[i].ok}

\* the calls of handle_streaming_chunk after call i which found the card of call i
After(i) == {j \in (i + 1)..Len(dt.calls) : dt.calls[j].card = dt.calls[i].card}

\* C32, as stated: after an update of a card failed the card is FAILED, no
\* further update of it is made, and every later chunk that finds the card,
\* final or not, is sent as markdown
C32_EveryChunkFallsBack ==
  \A i \in FailedUpdates :
    /\ dt.ai_cards[dt.calls[i].card] = FAILED
    /\ \A j \in After(i) : dt.calls[j].via = "markdown"

\* C32, amended: after an update of a card failed the card is FAILED, no
\* further update of it is made, a later final chunk that finds the card is
\* sent as markdown and a later chunk which is not final is not sent at all
C32_FinalChunkFallsBack ==
  \A i \in FailedUpdates :
    /\ dt.ai_cards[dt.calls[i].card] = FAILED
    /\ \A j \in After(i) :
         dt.calls[j].via = IF dt.calls[j].is_final THEN "markdown" ELSE "none"

\* an update failed, the next chunk was not sent and the final one was sent
\* as markdown
C32_Witness ==
  \E i \in FailedUpdates :
    /\ Len(dt.calls) = i + 2
    /\ After(i) = {i + 1, i + 2}
    /\ dt.calls[i + 1].via = "none"
    /\ dt.calls[i + 2].via = "markdown" /\ dt.calls[i + 2].is_final

\* C38: every update of a card is made on a card created in the turn of the
\* update, a turn after one that ended without a final chunk included
C38_CardOfTheTurn ==
  \A i \in 1..Len(dt.calls) :
    dt.calls[i].via = "card" => dt.made[dt.calls[i].card] = dt.calls[i].turn

(* ---------------- the outbound dispatcher of the channel manager ---------------- *)
\* the messages published on the outbound queue
DispMessages == 3

\* the connectors start_all can register; a message can name another channel
Connectors == {"telegram", "qq"}

\* a dispatcher that looks up the connector only
IsRegistered(d, msg) == msg.channel \in d.channels

\* the connector of the message is registered and is running
Routes(d, msg) == msg.channel \in d.channels /\ msg.channel \in d.is_running

\* publish_outbound on the running bus
DispPublish(channel) ==
  /\ disp.pc # "none"
  /\ disp.published < DispMessages
  /\ disp' = [disp EXCEPT
                !.published = @ + 1,
                !.outbound = Append(@, [id |-> disp.published + 1, channel |-> channel])]
  /\ UNCHANGED <<offMore, qqVars, stream, dt>>

\* _listen_outbound gets a message from consume_outbound: with no connector
\* under msg.channel, or one that is not running, the message is dropped and
\* the loop goes on; else the message is given to send of that connector
DispConsume ==
  /\ disp.pc = "consume"
  /\ disp.outbound # <<>>
  /\ LET msg == Head(disp.outbound)
         seen == [msg |-> msg, connector |-> msg.channel,
                  registered |-> msg.channel \in disp.channels,
                  running |-> msg.channel \in disp.is_running]
     IN disp' = IF Routes(disp, msg)
                THEN [disp EXCEPT !.outbound = Tail(@), !.msg = msg.id, !.pc = "send",
                                  !.sent = Append(@, seen)]
                ELSE [disp EXCEPT !.outbound = Tail(@), !.dropped = Append(@, seen)]
  /\ UNCHANGED <<offMore, qqVars, stream, dt>>

\* send of the connector returns, or raises an Exception, which is logged: the
\* loop goes on either way
DispSendEnds(ok) ==
  /\ disp.pc = "send"
  /\ disp' = [disp EXCEPT !.pc = "consume", !.msg = 0,
                          !.failed = IF ok THEN @ ELSE Append(@, disp.msg)]
  /\ UNCHANGED <<offMore, qqVars, stream, dt>>

\* a registered connector finishes its start, or stops
DispChannelRuns(name, up) ==
  /\ disp.pc # "none"
  /\ name \in disp.channels
  /\ (name \in disp.is_running) # up
  /\ disp' = [disp EXCEPT !.is_running = IF up THEN @ \cup {name} ELSE @ \ {name}]
  /\ UNCHANGED <<offMore, qqVars, stream, dt>>

\* stop_all cancels the task: CancelledError at its await ends the loop
DispCancel ==
  /\ disp.pc \in {"consume", "send"}
  /\ disp' = [disp EXCEPT !.pc = "stopped", !.cancelled = TRUE]
  /\ UNCHANGED <<offMore, qqVars, stream, dt>>

InitDisp ==
  /\ EngineUnused
  /\ BusUnused /\ ChannelUnused /\ CronUnused /\ HeartbeatUnused /\ ClientUnused /\ QqUnused
  /\ StreamUnused /\ DtUnused
  /\ \E channels \in SUBSET Connectors \ {{}} : \E is_running \in SUBSET channels :
       disp = NewDisp(channels, is_running)

NextDisp ==
  \/ \E channel \in ChannelNames : DispPublish(channel)
  \/ DispConsume
  \/ \E ok \in BOOLEAN : DispSendEnds(ok)
  \/ \E name \in Connectors, up \in BOOLEAN : DispChannelRuns(name, up)
  \/ DispCancel

SpecDisp == InitDisp /\ [][NextDisp]_vars

(* ---------------- claims on the outbound dispatcher ---------------- *)
\* the ids of the messages of a log, in order
RECURSIVE MsgIds(_)
MsgIds(log) == IF log = <<>> THEN <<>> ELSE <<Head(log).msg.id>> \o MsgIds(Tail(log))

NoRepeat(ids) == \A i, j \in 1..Len(ids) : ids[i] = ids[j] => i = j

\* the ids of the messages consumed so far
Consumed == 1..(disp.published - Len(disp.outbound))

\* C33: every message consumed was given once to send of the connector
\* registered under its channel, which was running, or was dropped, and was
\* dropped when its channel had no connector, or none running; a send which
\* raises does not end the dispatcher: only its cancellation does
C33_RoutedOnceOrDropped ==
  /\ NoRepeat(MsgIds(disp.sent) \o MsgIds(disp.dropped))
  /\ Range(MsgIds(disp.sent) \o MsgIds(disp.dropped)) = Consumed
  /\ \A i \in 1..Len(disp.sent) :
       /\ disp.sent[i].connector = disp.sent[i].msg.channel
       /\ disp.sent[i].registered /\ disp.sent[i].running
  /\ \A i \in 1..Len(disp.dropped) :
       ~(disp.dropped[i].registered /\ disp.dropped[i].running)
  /\ disp.pc = "stopped" => disp.cancelled

\* a send raised, a message for a channel without connector and one for a
\* connector not running were dropped, and a later message was sent
C33_Witness ==
  /\ disp.failed = <<1>>
  /\ MsgIds(disp.sent) = <<1, 3>>
  /\ MsgIds(disp.dropped) = <<2>>
  /\ disp.pc = "consume"

(* ---------------- claims on the prompts of the client, continued ---------------- *)
\* no other prompt call was made for the session of call p
OnlyCallOfItsSession(p) ==
  \A q \in PromptIds \ {p} :
    prompts[q].pc = "idle" \/ prompts[q].session_id # prompts[p].session_id

\* the chunks of the session still in the message queue
LeftInQueue(session_id) ==
  {i \in 1..Len(message_queue) : message_queue[i].sessionId = session_id}

\* C35: when a prompt has returned, no chunk the agent wrote for it before its
\* response is left in the message queue: every one was consumed by the call
C35_NoChunkLeftBehind ==
  \A p \in PromptIds :
    (prompts[p].pc = "returned" /\ OnlyCallOfItsSession(p)) =>
      LeftInQueue(prompts[p].session_id) = {}

\* a prompt returned without a chunk that was written before its response, and
\* the next prompt, for another session, returned that chunk as its own
C35_ChunkReturnedByLaterPrompt ==
  \E p, q \in PromptIds :
    /\ prompts[p].pc = "returned" /\ prompts[q].pc = "returned"
    /\ prompts[p].request_id < prompts[q].request_id
    /\ prompts[p].session_id # prompts[q].session_id
    /\ prompts[p].content = <<>>
    /\ \E i \in 1..Len(prompts[q].content) :
         prompts[q].content[i][1] = prompts[p].session_id

\* the prompt calls that ended: returned, raised or cancelled
Over(p) == prompts[p].pc \in {"returned", "raised", "cancelled"}

\* C39: the request id of a prompt that is over is no key of the pending
\* requests, and the request ids of two prompts differ
C39_NoPendingIdOfEndedRequest ==
  /\ \A p \in PromptIds : Over(p) => prompts[p].request_id \notin pending_requests
  /\ \A p, q \in PromptIds :
       (p # q /\ prompts[p].request_id # 0) => prompts[p].request_id # prompts[q].request_id

\* a cancelled prompt whose request id is still pending
C39_CancelledStillPending ==
  \E p \in PromptIds :
    prompts[p].pc = "cancelled" /\ prompts[p].request_id \in pending_requests

(* ---------------- claims on the scheduler, continued ---------------- *)
\* the job _on_timer is executing
Executing == Head(handler.due)

\* C36: a step that ends the on_job call _on_timer awaits is the end of
\* _execute_job for that job: no step cancels the call
C36_ExecutionRunsToCompletion ==
  [][(handler.pc = "on_job" /\ handler' # handler) =>
       (Executing \in executed' /\ orphans'[Executing] = orphans[Executing])]_vars

\* an on_job call of _on_timer was cancelled and the job was never executed
C36_CancelledExecuting ==
  \E j \in DOMAIN orphans : orphans[j] > 0 /\ j \notin executed /\ handler.pc = "idle"

(* ---------------- the store file written by another process ---------------- *)
ExternalJobs == 2
ExternalCalls == 1
ExternalAdvances == 1

\* the schedule of the jobs the other process adds: every three seconds, which
\* no add_job of the scheduler itself is called with
ExternalSchedule == Every(3 * Second)

\* another process, the command line, makes a CronService of its own on the
\* store file and calls add_job: it loads the file, adds the job and saves;
\* the modification time of the file changes
ExternalAddJob ==
  /\ njobs < scenario.jobs
  /\ njobs' = njobs + 1
  /\ SaveStore(With(cron_file, njobs + 1, Job(ExternalSchedule, clock)))
  /\ UNCHANGED <<clock, cron_running, store, timer, handler, runner, invocations, executed,
                 outbounds, cron_calls, advances, orphans, raised, offCron>>

\* a run in which the store file is written from outside, from an empty store
InitCronExternal ==
  /\ EngineOff([name |-> "external", jobs |-> ExternalJobs, calls |-> ExternalCalls,
                advances |-> ExternalAdvances, history |-> FALSE,
                failures |-> FALSE])
  /\ BusUnused /\ ChannelUnused /\ HeartbeatUnused /\ ClientUnused /\ QqUnused /\ MoreUnused
  /\ NewCron(CronT0, NoJobs)

NextCronExternal == NextCron \/ ExternalAddJob

SpecCronExternal == InitCronExternal /\ [][NextCronExternal]_vars

\* a job of the store file which was added from outside and which the
\* scheduler has not loaded
NotLoaded(j) ==
  /\ j \in DOMAIN cron_file /\ cron_file[j].schedule = ExternalSchedule
  /\ j \notin DOMAIN store

\* C37: a job added to the store file from outside stays in the file until
\* the watcher has loaded it: no step of the scheduler takes it out
C37_ExternalJobKept ==
  [][\A j \in JobIds : (cron_running /\ NotLoaded(j)) => j \in DOMAIN cron_file']_vars

\* the scheduler runs, a job was added from outside, and the store file is the
\* store of the scheduler, without the job, and holds a job of the scheduler
C37_ExternalJobErased ==
  /\ cron_running /\ njobs = 2
  /\ DOMAIN cron_file = {2} /\ cron_file = store
  /\ cron_file[2].schedule # ExternalSchedule

====
